---- MODULE Spec2Model ----
(***************************************************************************)
(* Verification model of the Echo memory service (krishangMittal/Echo):    *)
(* webhook signature verification (app/security/webhook.py), the callback  *)
(* ingestion pipeline (app/callbacks.py), the Pinecone-backed durable      *)
(* store (app/memory/pinecone_store.py, app/services/pinecone_client.py),  *)
(* the LanceDB-backed store (app/memory/store.py) and the DLQ replay tool  *)
(* (scripts/dlq_replay.py).                                                *)
(*                                                                         *)
(* Strings are sequences of symbols; HMAC-SHA256 and SHA-1 are modelled as *)
(* collision-free constructors over their inputs.                          *)
(***************************************************************************)
EXTENDS Integers, Sequences, FiniteSets, Bags, TLC

VARIABLES
    vin,        \* SpecVerify, SpecChunk: arguments of the one call under test
    vout,       \* SpecVerify, SpecChunk: its outcome (Pending, NotChunked before it)
    cfg,        \* Settings: webhook_verify, ingest_webhook_secret
    now,        \* int(time.time())
    store,      \* the Pinecone index: a bag of stored vectors (rows)
    cache,      \* PineconeMemoryStore._existing_hashes of the server process
    dlq,        \* the files of the DLQ directory, oldest first
    last,       \* summary of the most recent call of CallbackProcessor.process
    hot,        \* the HotIndexManager of the server process
    table,      \* SpecLance: the rows of the LanceDB table, in insertion order
    lret,       \* SpecLance: the most recent MemoryStore.upsert call
    hret        \* SpecIndex: the most recent HotIndexManager call

(***************************************************************************)
(* Bounds of the model.                                                    *)
(***************************************************************************)
\* Number of seconds the model clock may lie above ClockBase.
MaxClockSkew == 1

\* Number of calls of CallbackProcessor.process in one behaviour.
MaxCalls == 2

\* Number of times the clock moves past the signature tolerance.
MaxTicks == 1

\* SpecLance: longest batch handed to MemoryStore.upsert, and most rows held.
MaxBatch == 2
MaxRows == 4

(***************************************************************************)
(* Program constants.                                                      *)
(***************************************************************************)
\* verify_webhook_signature(..., tolerance: int = 300)
Tolerance == 300

\* A value of int(time.time()) well past the epoch; the clock never reads
\* within Tolerance of 0.
ClockBase == 1000

(***************************************************************************)
(* Strings.  A symbol stands for a run of characters.                      *)
(***************************************************************************)
Sym(kind, secret, msg) == [k |-> kind, secret |-> secret, msg |-> msg]

\* hmac.new(secret, message, sha256).hexdigest(): 64 lowercase hex characters
HexDigest(secret, message) == <<Sym("hex", secret, message)>>

WS == Sym("ws", "", <<>>)          \* a whitespace character
NonAscii == Sym("nonascii", "", <<>>)   \* a character above U+007F
Junk == Sym("junk", "", <<>>)      \* some other printable ASCII characters

IsAscii(s) == \A i \in 1..Len(s) : s[i] # NonAscii

RECURSIVE StripL(_)
StripL(s) == IF s # <<>> /\ Head(s) = WS THEN StripL(Tail(s)) ELSE s

RECURSIVE StripR(_)
StripR(s) ==
    IF s # <<>> /\ s[Len(s)] = WS THEN StripR(SubSeq(s, 1, Len(s) - 1)) ELSE s

\* str.strip()
Strip(s) == StripL(StripR(s))

\* str.lower() on the header keys of the model
Lower(key) ==
    CASE key = "T" -> "t"
      [] key = "V1" -> "v1"
      [] OTHER -> key

(***************************************************************************)
(* A signature header.  form = "empty": blank after strip(); "bare": no    *)
(* "=" in it; "parts": the comma-separated parts, each already split at    *)
(* its first "=" into key and value.  A value is [digits, n, s]: digits    *)
(* says whether int(value) succeeds, n is the integer, s the characters.   *)
(***************************************************************************)
TsValue(n) == [digits |-> TRUE, n |-> n, s |-> <<>>]
StrValue(s) == [digits |-> FALSE, n |-> 0, s |-> s]
Part(key, value) == [key |-> key, val |-> value]

EmptyHeader == [form |-> "empty", bare |-> <<>>, parts |-> <<>>]
BareHeader(s) == [form |-> "bare", bare |-> s, parts |-> <<>>]
PartsHeader(ps) == [form |-> "parts", bare |-> <<>>, parts |-> ps]

\* One iteration of the loop of _parse_signature_header over a part.
ParsePart(acc, part) ==
    LET key == Lower(part.key)
        value == [part.val EXCEPT !.s = StripR(part.val.s)]
    IN  IF key \in {"t", "timestamp"}
        THEN IF value.digits THEN [acc EXCEPT !.timestamp = value.n] ELSE acc
        ELSE IF key \in {"v1", "signature", "sha256"} /\ acc.signature = <<>>
             THEN [acc EXCEPT !.signature = value.s]
             ELSE acc

RECURSIVE ParseParts(_, _)
ParseParts(acc, parts) ==
    IF parts = <<>> THEN acc
    ELSE ParseParts(ParsePart(acc, Head(parts)), Tail(parts))

\* _parse_signature_header: (timestamp, signature_value)
ParseSignatureHeader(header) ==
    CASE header.form = "empty" -> [timestamp |-> 0, signature |-> <<>>]
      [] header.form = "bare" -> [timestamp |-> 0, signature |-> Strip(header.bare)]
      [] OTHER -> ParseParts([timestamp |-> 0, signature |-> <<>>], header.parts)

Abs(n) == IF n < 0 THEN 0 - n ELSE n

\* f"{timestamp}.".encode("utf-8") + body
TimestampedMessage(timestamp, bytes) == <<ToString(timestamp), ".">> \o bytes

Ok == [ok |-> TRUE, exc |-> "none", msg |-> "none"]
Raise(exc, msg) == [ok |-> FALSE, exc |-> exc, msg |-> msg]

\* hmac.compare_digest(expected, provided) on two str arguments: raises
\* TypeError when one holds a non-ASCII character.
CompareDigest(expected, provided) ==
    IF ~IsAscii(expected) \/ ~IsAscii(provided) THEN Raise("TypeError", "non-ascii")
    ELSE IF expected = provided THEN Ok
    ELSE Raise("WebhookVerificationError", "invalid signature")

\* A timestamp of 0 is taken as absent: `if timestamp:`.
VerifyMessage(timestamp, bytes) ==
    IF timestamp # 0 THEN TimestampedMessage(timestamp, bytes) ELSE bytes

\* lines 43-57 of verify_webhook_signature
VerifyAgainstSecret(header, bytes, secret, current) ==
    LET parsed == ParseSignatureHeader(header)
        timestamp == parsed.timestamp
        provided == parsed.signature
    IN  IF provided = <<>>
        THEN Raise("WebhookVerificationError", "missing signature value")
        ELSE IF timestamp # 0 /\ Abs(current - timestamp) > Tolerance
        THEN Raise("WebhookVerificationError", "timestamp outside tolerance")
        ELSE CompareDigest(HexDigest(secret, VerifyMessage(timestamp, bytes)),
                           provided)

\* mutant: the `if not secret` check is missing, so an unset secret is used
\* as the empty HMAC key
VerifyWebhookSignature_NoSecretCheck(header, bytes, secret, current) ==
    VerifyAgainstSecret(header, bytes, secret, current)

\* verify_webhook_signature(signature_header, body, secret), at clock `current`
VerifyWebhookSignature(header, bytes, secret, current) ==
    IF secret = "" THEN Raise("WebhookVerificationError", "missing webhook secret")
    ELSE VerifyAgainstSecret(header, bytes, secret, current)

(***************************************************************************)
(* Text chunking (app/text/chunker.py).  A text is the token sequence of   *)
(* its normalized form; token 0 decodes to whitespace.                     *)
(***************************************************************************)
\* Settings.chunk_tokens, Settings.chunk_overlap, Settings.min_tokens
ChunkTokens == 3
ChunkOverlap == 1
MinTokens == 2

Min(a, b) == IF a < b THEN a ELSE b
Max(a, b) == IF a > b THEN a ELSE b

RECURSIVE TokStripL(_)
TokStripL(ts) == IF ts # <<>> /\ Head(ts) = 0 THEN TokStripL(Tail(ts)) ELSE ts

RECURSIVE TokStripR(_)
TokStripR(ts) ==
    IF ts # <<>> /\ ts[Len(ts)] = 0 THEN TokStripR(SubSeq(ts, 1, Len(ts) - 1)) ELSE ts

\* normalizer(decode(token_slice).strip()): the slice without the whitespace
\* at its ends
NormalizedSlice(token_slice) == TokStripL(TokStripR(token_slice))

\* TextChunker._build_chunk: <<>> for None, else <<chunk>>; the chunk hash
\* is sha1 of the normalized text
BuildChunk(token_slice, start) ==
    IF token_slice = <<>> THEN <<>>
    ELSE LET normalized == NormalizedSlice(token_slice)
         IN  IF normalized = <<>> THEN <<>>
             ELSE << [normalized_text |-> normalized,
                      token_count |-> Len(token_slice),
                      token_start |-> start,
                      hash |-> <<"sha1", normalized>>] >>

\* TextChunker.__init__: the settings of one chunker; raised when the
\* constructor raises ValueError
TextChunker(max_tokens, overlap, min_tokens) ==
    [max_tokens |-> max_tokens, overlap |-> overlap, min_tokens |-> min_tokens,
     step |-> Max(max_tokens - overlap, 1), raised |-> overlap >= max_tokens]

\* no threshold: every chunk that was built is kept
ChunkerKeep_All(self, c) == c

\* `if chunk and chunk.token_count >= self._min_tokens`
ChunkerKeep(self, c) == IF c # <<>> /\ c[1].token_count >= self.min_tokens THEN c ELSE <<>>

\* a loop that slides the window by one token
RECURSIVE ChunkerLoop_ByOne(_, _, _, _)
ChunkerLoop_ByOne(self, tokens, start, iterations) ==
    IF ~(start < Len(tokens)) THEN [chunks |-> <<>>, iterations |-> iterations]
    ELSE LET end == Min(start + self.max_tokens, Len(tokens))
             kept == ChunkerKeep(self, BuildChunk(SubSeq(tokens, start + 1, end), start))
             rest == ChunkerLoop_ByOne(self, tokens, start + 1, iterations + 1)
         IN  IF end = Len(tokens) THEN [chunks |-> kept, iterations |-> iterations + 1]
             ELSE [chunks |-> kept \o rest.chunks, iterations |-> rest.iterations]

\* the while loop of TextChunker.chunk from offset `start` (0-based), after
\* `iterations` earlier passes: the chunks appended and the passes made
RECURSIVE ChunkerLoop(_, _, _, _)
ChunkerLoop(self, tokens, start, iterations) ==
    IF ~(start < Len(tokens)) THEN [chunks |-> <<>>, iterations |-> iterations]
    ELSE LET end == Min(start + self.max_tokens, Len(tokens))
             kept == ChunkerKeep(self, BuildChunk(SubSeq(tokens, start + 1, end), start))
             next == Max(0, end - self.overlap)
             rest == ChunkerLoop(self, tokens, next, iterations + 1)
         IN  IF end = Len(tokens) THEN [chunks |-> kept, iterations |-> iterations + 1]
             ELSE IF next = end THEN [chunks |-> kept, iterations |-> iterations + 1]
             ELSE [chunks |-> kept \o rest.chunks, iterations |-> rest.iterations]

\* TextChunker.chunk of a chunker with the settings self
ChunkerChunk(self, tokens) ==
    IF tokens = <<>> THEN [chunks |-> <<>>, iterations |-> 0]
    ELSE IF Len(tokens) <= self.max_tokens
    THEN [chunks |-> ChunkerKeep(self, BuildChunk(tokens, 0)), iterations |-> 0]
    ELSE ChunkerLoop(self, tokens, 0, 0)

\* the chunker of the server process
DefaultChunker == TextChunker(ChunkTokens, ChunkOverlap, MinTokens)

KeepChunk(c) == ChunkerKeep(DefaultChunker, c)

ChunkLoop(tokens, start) == ChunkerLoop(DefaultChunker, tokens, start, 0).chunks

\* TextChunker.chunk
Chunk(tokens) == ChunkerChunk(DefaultChunker, tokens).chunks

(***************************************************************************)
(* Webhook payloads.  A body is its bytes, whether they decode as UTF-8,   *)
(* and the document json.loads yields for the decoded text.  A string      *)
(* identifier is the sequence of its "_"-separated segments.               *)
(***************************************************************************)
NoneVal == [t |-> "none", segs |-> <<>>]
StrVal(segs) == [t |-> "str", segs |-> segs]
IntVal == [t |-> "int", segs |-> <<"5">>]
BlankStr == StrVal(<<"">>)

\* the test applied by _first_non_empty to one value
IsEmptyValue(v) == v = NoneVal \/ v = BlankStr

\* _first_non_empty(*values): None when every value is None or blank
RECURSIVE FirstNonEmpty(_)
FirstNonEmpty(values) ==
    IF values = <<>> THEN NoneVal
    ELSE IF IsEmptyValue(Head(values)) THEN FirstNonEmpty(Tail(values))
    ELSE Head(values)

\* a JSON message object (or a non-dict item of the messages array)
Message(isdict, hasConv, conv, nested, text, turn, user) ==
    [isdict |-> isdict, has_conv |-> hasConv, conversation_id |-> conv,
     conversation |-> nested, text |-> text, turn |-> turn, user_id |-> user]

Doc(kind, conv, msgs) == [kind |-> kind, conversation_id |-> conv, msgs |-> msgs]

Body(bytes, utf8, doc) == [bytes |-> bytes, utf8 |-> utf8, doc |-> doc]

\* CallbackProcessor._inject_conversation_id
InjectConversationId(message, conv_id) ==
    IF message.isdict /\ conv_id # NoneVal /\ ~message.has_conv
    THEN [message EXCEPT !.has_conv = TRUE, !.conversation_id = conv_id]
    ELSE message

\* CallbackProcessor._parse_message: <<>> for None, else <<IngestMessage>>
ParseMessage(data) ==
    IF ~data.isdict THEN <<>>
    ELSE LET conversation_id == FirstNonEmpty(<<data.conversation_id, data.conversation>>)
         IN  IF conversation_id = NoneVal THEN <<>>
             ELSE IF data.text = <<>> THEN <<>>
             ELSE << [conversation_id |-> conversation_id,
                      turn |-> data.turn,
                      text |-> data.text,
                      user_id |-> FirstNonEmpty(<<data.user_id>>)] >>

RECURSIVE ParseMessages(_)
ParseMessages(raw) ==
    IF raw = <<>> THEN <<>>
    ELSE ParseMessage(Head(raw)) \o ParseMessages(Tail(raw))

\* raw_messages of CallbackProcessor._extract_messages for a supported shape
RawMessages(payload) ==
    IF payload.kind = "messages"
    THEN [i \in 1..Len(payload.msgs) |->
             InjectConversationId(payload.msgs[i], FirstNonEmpty(<<payload.conversation_id>>))]
    ELSE payload.msgs

\* _extract_messages giving up on the first item _parse_message rejects
ExtractMessages_Strict(payload) ==
    CASE payload.kind = "scalar" ->
            [ok |-> FALSE, exc |-> "ValueError", messages |-> <<>>]
      [] payload.kind = "messages_int" ->
            [ok |-> FALSE, exc |-> "TypeError", messages |-> <<>>]
      [] Len(ParseMessages(RawMessages(payload))) < Len(payload.msgs) ->
            [ok |-> FALSE, exc |-> "ValueError", messages |-> <<>>]
      [] OTHER ->
            [ok |-> TRUE, exc |-> "none", messages |-> ParseMessages(RawMessages(payload))]

\* CallbackProcessor._extract_messages; kinds: "array" (a list), "messages"
\* (a dict with a messages list), "messages_int" (a dict whose messages
\* value is a number), "object" (any other dict), "scalar" (anything else)
ExtractMessages(payload) ==
    CASE payload.kind = "scalar" ->
            [ok |-> FALSE, exc |-> "ValueError", messages |-> <<>>]
      [] payload.kind = "messages_int" ->
            [ok |-> FALSE, exc |-> "TypeError", messages |-> <<>>]
      [] OTHER ->
            [ok |-> TRUE, exc |-> "none", messages |-> ParseMessages(RawMessages(payload))]

\* chunk_pairs of CallbackProcessor.process: (message, chunk) in order
RECURSIVE ChunkPairs(_)
ChunkPairs(messages) ==
    IF messages = <<>> THEN <<>>
    ELSE LET m == Head(messages)
             cs == Chunk(m.text)
         IN  [i \in 1..Len(cs) |-> [message |-> m, chunk |-> cs[i]]]
             \o ChunkPairs(Tail(messages))

\* a record hash composed without the token offset
RecordHash_NoOffset(message, chunk) ==
    <<message.conversation_id, message.turn, chunk.hash>>

\* record_hash of _build_record: sha1 of
\* "{conversation_id}:{turn}:{token_start}:{chunk.hash}"
RecordHash(message, chunk) ==
    <<message.conversation_id, message.turn, chunk.token_start, chunk.hash>>

\* user_id of _build_record:
\*   message.user_id or conversation_id.split('_')[0] if '_' in conversation_id
\*   else conversation_id
RecordUserId(message) ==
    IF Len(message.conversation_id.segs) > 1
    THEN IF message.user_id # NoneVal THEN message.user_id.segs
         ELSE <<message.conversation_id.segs[1]>>
    ELSE message.conversation_id.segs

\* CallbackProcessor._build_record; `'_' in conversation_id` raises
\* TypeError for a conversation id that is a number
BuildRecord(pair) ==
    IF pair.message.conversation_id.t # "str"
    THEN [ok |-> FALSE, exc |-> "TypeError", record |-> <<>>]
    ELSE [ok |-> TRUE, exc |-> "none",
          record |-> << [hash |-> RecordHash(pair.message, pair.chunk),
                         conv_id |-> pair.message.conversation_id,
                         user_id |-> RecordUserId(pair.message)] >>]

RECURSIVE BuildRecords(_)
BuildRecords(pairs) ==
    IF pairs = <<>> THEN [ok |-> TRUE, exc |-> "none", records |-> <<>>]
    ELSE LET first == BuildRecord(Head(pairs))
         IN  IF ~first.ok THEN [ok |-> FALSE, exc |-> first.exc, records |-> <<>>]
             ELSE LET rest == BuildRecords(Tail(pairs))
                  IN  IF ~rest.ok THEN rest
                      ELSE [rest EXCEPT !.records = first.record \o rest.records]

(***************************************************************************)
(* The webhook bodies of the model.                                        *)
(***************************************************************************)
Conv1 == StrVal(<<"c1">>)
ConvU == StrVal(<<"u1", "a">>)

PlainMessage(conv, text, turn) == Message(TRUE, TRUE, conv, NoneVal, text, turn, NoneVal)

\* b'\xff'
BodyBadUtf8 == Body(<<"0xff">>, FALSE, Doc("malformed", NoneVal, <<>>))
\* b'{'
BodyBadJson == Body(<<"{">>, TRUE, Doc("malformed", NoneVal, <<>>))
\* b'5'
BodyScalar == Body(<<"5">>, TRUE, Doc("scalar", NoneVal, <<>>))
\* b'{"messages": 5}'
BodyMessagesInt == Body(<<"{messages:5}">>, TRUE, Doc("messages_int", NoneVal, <<>>))
\* b'{"messages": [{"text": ""}]}'
BodyEmptyText ==
    Body(<<"{messages:[{text:}]}">>, TRUE,
         Doc("messages", NoneVal,
             << Message(TRUE, FALSE, NoneVal, NoneVal, <<>>, 0, NoneVal) >>))
\* a single message whose text is below min_tokens
BodyShort == Body(<<"{c1,0,short}">>, TRUE, Doc("object", NoneVal, <<PlainMessage(Conv1, <<1>>, 0)>>))
\* a single message of one chunk
BodyOne == Body(<<"{c1,0,one}">>, TRUE, Doc("object", NoneVal, <<PlainMessage(Conv1, <<1, 2>>, 0)>>))
\* a single message of two chunks
BodyTwo ==
    Body(<<"{u1_a,1,two}">>, TRUE,
         Doc("object", NoneVal, <<PlainMessage(ConvU, <<1, 2, 0, 3, 1>>, 1)>>))
\* a bare array holding the same message twice
BodyTwice ==
    Body(<<"[{c1,0,one},{c1,0,one}]">>, TRUE,
         Doc("array", NoneVal, <<PlainMessage(Conv1, <<1, 2>>, 0), PlainMessage(Conv1, <<1, 2>>, 0)>>))
\* a single message whose conversation_id is the number 5
BodyIntConv == Body(<<"{5,0,one}">>, TRUE, Doc("object", NoneVal, <<PlainMessage(IntVal, <<1, 2>>, 0)>>))

PipelineBodies ==
    {BodyBadUtf8, BodyBadJson, BodyScalar, BodyMessagesInt, BodyEmptyText,
     BodyShort, BodyOne, BodyTwo, BodyTwice, BodyIntConv}

\* the items a messages array may hold in SpecPayload
PayloadMessages ==
    {\* complete messages
     PlainMessage(Conv1, <<1, 2>>, 0),
     PlainMessage(ConvU, <<2, 1>>, 1),
     \* a message below min_tokens
     PlainMessage(Conv1, <<1>>, 0),
     \* no conversation_id key; "conversation_id": null; "conversation_id": ""
     Message(TRUE, FALSE, NoneVal, NoneVal, <<1, 2>>, 2, NoneVal),
     Message(TRUE, TRUE, NoneVal, NoneVal, <<1, 2>>, 3, NoneVal),
     Message(TRUE, TRUE, BlankStr, NoneVal, <<1, 2>>, 4, NoneVal),
     \* the id under "conversation": {"id": ...} only
     Message(TRUE, FALSE, NoneVal, ConvU, <<1, 2>>, 5, NoneVal),
     \* no text
     PlainMessage(Conv1, <<>>, 6),
     \* an item that is not an object
     Message(FALSE, FALSE, NoneVal, NoneVal, <<>>, 0, NoneVal),
     \* a short message whose conversation_id is a number
     PlainMessage(IntVal, <<1>>, 0),
     \* messages with a user_id, under an id without and with "_"
     Message(TRUE, TRUE, Conv1, NoneVal, <<1, 2>>, 7, StrVal(<<"bob">>)),
     Message(TRUE, TRUE, ConvU, NoneVal, <<1, 2>>, 8, StrVal(<<"bob">>))}

\* longest messages array of a payload
MaxMessages == 2

MessageLists == UNION {[1..n -> PayloadMessages] : n \in 0..MaxMessages}

\* the JSON documents of SpecPayload: a bare array, an object with a
\* messages array (with and without a conversation_id of its own), and an
\* object that is itself one message
PayloadDocs ==
    {Doc("array", NoneVal, ms) : ms \in MessageLists}
    \cup {Doc("messages", c, ms) : c \in {NoneVal, Conv1}, ms \in MessageLists}
    \cup {Doc("object", NoneVal, <<m>>) : m \in {x \in PayloadMessages : x.isdict}}

PayloadBody(doc) == Body(<<"json">>, TRUE, doc)

\* lines 108-126 and 132-135 of process for one payload: the extracted
\* messages, the (message, chunk) pairs and the records built from them
Plan(payload) ==
    LET x == ExtractMessages(payload)
        pairs == ChunkPairs(x.messages)
    IN  [x |-> x, pairs |-> pairs, built |-> BuildRecords(pairs)]

\* the documents of those bodies, each with its plan
PlanOf ==
    [payload \in {b.doc : b \in PipelineBodies} \cup PayloadDocs |-> Plan(payload)]

(***************************************************************************)
(* Durable store (app/memory/pinecone_store.py, pinecone_client.py).       *)
(***************************************************************************)
\* PineconeMemoryStore.upsert over records[i..]: `store_ok` holds the
\* positions whose PineconeClient.store_semantic_memory returns True (it
\* returns False when the embedding or the Pinecone upsert raises).  Every
\* successful store creates a new vector: its id is "mem_<user>_<time>".
RECURSIVE UpsertFrom(_, _, _, _)
UpsertFrom(records, i, store_ok, acc) ==
    IF i > Len(records) THEN acc
    ELSE LET record == records[i]
         IN  IF record.hash \in acc.cache
             THEN UpsertFrom(records, i + 1, store_ok, acc)
             ELSE IF i \in store_ok
             THEN UpsertFrom(records, i + 1, store_ok,
                             [acc EXCEPT !.cache = @ \cup {record.hash},
                                         !.rows = Append(@, record),
                                         !.count = @ + 1])
             ELSE UpsertFrom(records, i + 1, store_ok,
                             [acc EXCEPT !.failed = @ + 1])

Upsert(records, existing_hashes, store_ok) ==
    UpsertFrom(records, 1, store_ok,
               [cache |-> existing_hashes, rows |-> <<>>, count |-> 0, failed |-> 0])

(***************************************************************************)
(* Dead-letter queue and the callback pipeline (app/callbacks.py).         *)
(***************************************************************************)
\* body.decode("utf-8", errors="replace"), as the bytes the replay tool
\* gets back from .encode("utf-8")
DecodeReplace(body) ==
    IF body.utf8 THEN body ELSE Body(<<"U+FFFD">>, TRUE, body.doc)

\* the JSON file DeadLetterQueue.write produces; `signature` is
\* extra["signature"], the empty header when extra holds none
DlqEntry(reason, body, signature) ==
    [reason |-> reason, body |-> DecodeReplace(body), signature |-> signature]

\* DeadLetterQueue.write for the attempts of one call, in order: attempt i
\* persists its file when i is in dlq_ok and raises OSError otherwise
DlqWriteAll(entries, dlq_ok) ==
    [written |-> SelectSeq([i \in 1..Len(entries) |-> [i |-> i, e |-> entries[i]]],
                           LAMBDA x : x.i \in dlq_ok),
     failed |-> \E i \in 1..Len(entries) : i \notin dlq_ok]

\* The outcomes of the collaborators during one call: the embedding client
\* (returns one result per chunk, raises, or returns too few results), each
\* store_semantic_memory, each DLQ file write.
Env(embed, store_ok, dlq_ok) == [embed |-> embed, store_ok |-> store_ok, dlq_ok |-> dlq_ok]

Outcome(ok, exc, stage) ==
    [ok |-> ok, exc |-> exc, stage |-> stage, parsed |-> FALSE,
     embed_called |-> FALSE, upsert_called |-> FALSE, hashes |-> {},
     chunks |-> 0, stored |-> 0, store_failed |-> 0,
     dlq_attempts |-> 0, dlq_written |-> 0]

Result(out, cacheOut, rows, entries) ==
    [out |-> out, cache |-> cacheOut, rows |-> rows, dlq |-> entries]

\* an exception no handler of process catches: it reaches the caller as is
Propagate(stage, exc, cacheIn) ==
    Result(Outcome(FALSE, exc, stage), cacheIn, <<>>, <<>>)

\* `self._dlq.write(...)` in the handlers, then `raise`: the caller gets the
\* stage error unless a write raised, and then the error of the write
FailWithDlq(stage, exc, entries, env, flags, cacheIn) ==
    LET w == DlqWriteAll(entries, env.dlq_ok)
    IN  Result([Outcome(FALSE, IF w.failed THEN "OSError" ELSE exc, stage)
                    EXCEPT !.parsed = flags.parsed,
                           !.embed_called = flags.embed_called,
                           !.chunks = flags.chunks,
                           !.dlq_attempts = Len(entries),
                           !.dlq_written = Len(w.written)],
               cacheIn, <<>>, [i \in 1..Len(w.written) |-> w.written[i].e])

Flags(parsed, embed_called, chunks) ==
    [parsed |-> parsed, embed_called |-> embed_called, chunks |-> chunks]

\* lines 95-102 of process
VerifyStage(body, header, config, current) ==
    IF config.verify
    THEN VerifyWebhookSignature(header, body.bytes, config.secret, current)
    ELSE Ok

\* json.loads(body.decode("utf-8"))
DecodeStage(body) ==
    IF ~body.utf8 THEN [ok |-> FALSE, exc |-> "UnicodeDecodeError"]
    ELSE IF body.doc.kind = "malformed" THEN [ok |-> FALSE, exc |-> "JSONDecodeError"]
    ELSE [ok |-> TRUE, exc |-> "none"]

\* sorted({msg.conversation_id ...}) raises TypeError on str mixed with int
SortableIds(messages) ==
    \A i, j \in 1..Len(messages) :
        messages[i].conversation_id.t = messages[j].conversation_id.t

\* `payload:` for a ValueError, `pipeline:` for any other exception
OuterReason(exc) == IF exc = "ValueError" THEN "payload" ELSE "pipeline"

\* lines 108-165 of process: the outer try block and the result
PipelineBody(body, env, cacheIn) ==
    LET plan == PlanOf[body.doc]
        x == plan.x
        messages == x.messages
        pairs == plan.pairs
        built == plan.built
        up == Upsert(built.records, cacheIn, env.store_ok)
        zero == [Outcome(TRUE, "none", "done") EXCEPT !.parsed = TRUE]
    IN  IF ~x.ok
        THEN FailWithDlq("extract", x.exc, <<DlqEntry(OuterReason(x.exc), body, EmptyHeader)>>,
                         env, Flags(TRUE, FALSE, 0), cacheIn)
        ELSE IF messages = <<>> THEN Result(zero, cacheIn, <<>>, <<>>)
        ELSE IF ~SortableIds(messages)
        THEN FailWithDlq("extract", "TypeError", <<DlqEntry("pipeline", body, EmptyHeader)>>,
                         env, Flags(TRUE, FALSE, 0), cacheIn)
        ELSE IF pairs = <<>> THEN Result(zero, cacheIn, <<>>, <<>>)
        ELSE IF env.embed # "ok"
        THEN FailWithDlq("embedding",
                         IF env.embed = "mismatch" THEN "RuntimeError" ELSE "EmbeddingError",
                         <<DlqEntry("embedding", body, EmptyHeader),
                           DlqEntry("pipeline", body, EmptyHeader)>>,
                         env, Flags(TRUE, TRUE, Len(pairs)), cacheIn)
        ELSE IF ~built.ok
        THEN FailWithDlq("build", built.exc, <<DlqEntry(OuterReason(built.exc), body, EmptyHeader)>>,
                         env, Flags(TRUE, TRUE, Len(pairs)), cacheIn)
        ELSE Result([zero EXCEPT !.embed_called = TRUE,
                                 !.upsert_called = TRUE,
                                 !.hashes = {built.records[i].hash : i \in 1..Len(built.records)},
                                 !.chunks = Len(pairs),
                                 !.stored = up.count,
                                 !.store_failed = up.failed],
                    up.cache, up.rows, <<>>)

\* mutant: the records are upserted before the signature and the JSON body
\* are checked
ProcessRun_IngestFirst(body, header, env, cacheIn, config, current) ==
    LET v == VerifyStage(body, header, config, current)
        d == DecodeStage(body)
        r == PipelineBody(body, env, cacheIn)
        eager == PipelineBody(body, Env("ok", {1, 2}, {}), cacheIn)
    IN  IF ~v.ok
        THEN [FailWithDlq("signature", v.exc, <<DlqEntry("signature", body, header)>>,
                          env, Flags(FALSE, FALSE, 0), cacheIn)
                 EXCEPT !.cache = eager.cache, !.rows = eager.rows]
        ELSE IF ~d.ok
        THEN [FailWithDlq("json", d.exc, <<DlqEntry("json", body, EmptyHeader)>>,
                          env, Flags(TRUE, FALSE, 0), cacheIn)
                 EXCEPT !.cache = eager.cache, !.rows = eager.rows]
        ELSE r

\* mutant: a failure of the embedding step does not keep the records of the
\* call out of the store
ProcessRun_StoreDespiteEmbedding(body, header, env, cacheIn, config, current) ==
    LET v == VerifyStage(body, header, config, current)
        d == DecodeStage(body)
        r == PipelineBody(body, env, cacheIn)
        eager == PipelineBody(body, Env("ok", {1, 2}, {}), cacheIn)
    IN  IF ~v.ok
        THEN IF v.exc = "WebhookVerificationError"
             THEN FailWithDlq("signature", v.exc, <<DlqEntry("signature", body, header)>>,
                              env, Flags(FALSE, FALSE, 0), cacheIn)
             ELSE Propagate("signature", v.exc, cacheIn)
        ELSE IF ~d.ok
        THEN IF d.exc = "JSONDecodeError"
             THEN FailWithDlq("json", d.exc, <<DlqEntry("json", body, EmptyHeader)>>,
                              env, Flags(TRUE, FALSE, 0), cacheIn)
             ELSE Propagate("decode", d.exc, cacheIn)
        ELSE IF r.out.stage = "embedding"
        THEN [r EXCEPT !.cache = eager.cache, !.rows = eager.rows]
        ELSE r

\* CallbackProcessor.process(body, signature_header) on a processor whose
\* store caches `cacheIn`
ProcessRun(body, header, env, cacheIn, config, current) ==
    LET v == VerifyStage(body, header, config, current)
        d == DecodeStage(body)
    IN  IF ~v.ok
        THEN IF v.exc = "WebhookVerificationError"
             THEN FailWithDlq("signature", v.exc, <<DlqEntry("signature", body, header)>>,
                              env, Flags(FALSE, FALSE, 0), cacheIn)
             ELSE Propagate("signature", v.exc, cacheIn)
        ELSE IF ~d.ok
        THEN IF d.exc = "JSONDecodeError"
             THEN FailWithDlq("json", d.exc, <<DlqEntry("json", body, EmptyHeader)>>,
                              env, Flags(TRUE, FALSE, 0), cacheIn)
             ELSE Propagate("decode", d.exc, cacheIn)
        ELSE PipelineBody(body, env, cacheIn)

(***************************************************************************)
(* SpecVerify: verify_webhook_signature applied to bounded inputs.         *)
(***************************************************************************)
Secrets == {"", "k1", "k2"}
SigningSecrets == Secrets \ {""}

\* request bodies as byte strings
BodyBytes == {<<"{}">>, <<"[]">>}

Clocks == ClockBase .. (ClockBase + MaxClockSkew)

\* timestamps a header may carry when the clock reads `current`
Timestamps(current) ==
    {0, current - Tolerance - 1, current - Tolerance, current,
     current + Tolerance, current + Tolerance + 1}

\* what a signer sends for (secret, t, body): HMAC-SHA256(secret, "<t>." + body)
SignWithTimestamp(secret, t, bytes) == HexDigest(secret, TimestampedMessage(t, bytes))
\* what a signer sends without a timestamp: HMAC-SHA256(secret, body)
SignBare(secret, bytes) == HexDigest(secret, bytes)

Digests(current) ==
    {SignWithTimestamp(s, t, b) : s \in SigningSecrets, t \in Timestamps(current),
                                  b \in BodyBytes}
    \cup {SignBare(s, b) : s \in SigningSecrets, b \in BodyBytes}

SignatureValues(current) ==
    Digests(current)
    \cup {d \o <<WS>> : d \in Digests(current)}
    \cup {<<>>, <<Junk>>, <<NonAscii>>, <<WS>>}

TimestampValues(current) ==
    {TsValue(t) : t \in Timestamps(current)} \cup {StrValue(<<Junk>>)}

Headers(current) ==
    {EmptyHeader}
    \cup {BareHeader(s) : s \in SignatureValues(current) \ {<<>>, <<WS>>}}
    \cup {PartsHeader(<<Part(kt, tv), Part(ks, StrValue(s))>>) :
            kt \in {"t", "T", "timestamp"}, tv \in TimestampValues(current),
            ks \in {"v1", "sha256", "x"}, s \in SignatureValues(current)}
    \cup {PartsHeader(<<Part("v1", StrValue(s)), Part("t", tv)>>) :
            tv \in TimestampValues(current), s \in Digests(current)}
    \cup {PartsHeader(<<Part("t", TsValue(t1)), Part("t", tv2), Part("v1", StrValue(s))>>) :
            t1 \in {current - Tolerance - 1, current}, tv2 \in TimestampValues(current),
            s \in Digests(current)}
    \cup {PartsHeader(<<Part("v1", StrValue(s1)), Part("signature", StrValue(s2))>>) :
            s1 \in {<<>>, <<Junk>>}, s2 \in Digests(current)}

Pending == [ok |-> FALSE, exc |-> "pending", msg |-> "pending"]

InitVerify ==
    /\ \E current \in Clocks, secret \in Secrets, bytes \in BodyBytes :
         \E header \in Headers(current) :
            vin = [header |-> header, bytes |-> bytes, secret |-> secret,
                   current |-> current]
    /\ vout = Pending

\* the call verify_webhook_signature(header, body, secret)
VerifyCall ==
    /\ vout = Pending
    /\ vout' = VerifyWebhookSignature(vin.header, vin.bytes, vin.secret, vin.current)
    /\ UNCHANGED vin

(***************************************************************************)
(* Hot index (app/memory/index.py).  A HotIndexManager is its fields       *)
(* (_initialized, _next_label, _free_labels, _records in dict order,       *)
(* _id_to_label, _hash_to_label, _metrics.size) together with the hnswlib  *)
(* index it owns: max_elements, the elements in internal-id order (elems), *)
(* and the label table of the library (lookup).  A dict is a set of        *)
(* <<key, value>> pairs; _records is the sequence of its items.            *)
(***************************************************************************)
\* Settings.embed_dim and Settings.topk
EmbedDim == 384
DefaultTopk == 5

\* max(capacity, 128) in _ensure_initialized and total_expected + 16 in
\* add_or_update, scaled down so that growth happens within the bounds
MinCapacity == 3
Headroom == 1

\* number of state-changing HotIndexManager calls in one behaviour
MaxHotOps == 4
\* longest batch handed to add_or_update and rebuild
MaxHotBatch == 2

NoLabel == -1

MapGet(m, k) == IF \E p \in m : p[1] = k THEN (CHOOSE p \in m : p[1] = k)[2] ELSE NoLabel
MapPut(m, k, v) == {p \in m : p[1] # k} \cup {<<k, v>>}
MapPop(m, k) == {p \in m : p[1] # k}

\* HotIndexManager.__init__, and hnswlib.Index(space, dim) before init_index
HotEmpty ==
    [initialized |-> FALSE, next_label |-> 0, free_labels |-> <<>>,
     records |-> <<>>, id_to_label |-> {}, hash_to_label |-> {}, size |-> 0,
     max_elements |-> 0, elems |-> <<>>, lookup |-> {}]

LiveLabels(h) == {h.records[i].label : i \in 1..Len(h.records)}

\* self._records.get(label): the position of the label's item, 0 for None
RecordsGet(h, label) ==
    IF label \in LiveLabels(h)
    THEN (CHOOSE i \in 1..Len(h.records) : h.records[i].label = label)
    ELSE 0

\* self._records[label] = record: an existing key keeps its position
RecordsSet(records, label, record) ==
    IF \E i \in 1..Len(records) : records[i].label = label
    THEN [i \in 1..Len(records) |->
            IF records[i].label = label THEN [label |-> label, rec |-> record]
            ELSE records[i]]
    ELSE Append(records, [label |-> label, rec |-> record])

\* self._records.pop(label, None)
RecordsPop(records, label) == SelectSeq(records, LAMBDA item : item.label # label)

\* growth to exactly the capacity asked for, not by a factor
GrowCapacity_ByNeed(needed, current_max) == needed

\* max(needed, int(current_max * 1.5))
GrowCapacity(needed, current_max) == Max(needed, (current_max * 3) \div 2)

\* HotIndexManager._ensure_initialized
EnsureInitialized(h, capacity) ==
    IF ~h.initialized
    THEN [h EXCEPT !.max_elements = Max(capacity, MinCapacity), !.initialized = TRUE]
    ELSE IF capacity > h.max_elements
    THEN [h EXCEPT !.max_elements = GrowCapacity(capacity, h.max_elements)]
    ELSE h

\* HotIndexManager._allocate_label
AllocateLabel(h) ==
    IF h.free_labels # <<>>
    THEN [h |-> [h EXCEPT !.free_labels = SubSeq(h.free_labels, 1, Len(h.free_labels) - 1)],
          label |-> h.free_labels[Len(h.free_labels)]]
    ELSE LET label == h.next_label
             h1 == [h EXCEPT !.next_label = label + 1]
         IN  [h |-> IF h1.initialized /\ label + 1 > h1.max_elements
                    THEN [h1 EXCEPT !.max_elements = GrowCapacity(label + 1, h1.max_elements)]
                    ELSE h1,
              label |-> label]

\* the loop of add_or_update without the dimension test: no record is skipped
RECURSIVE AddLoop_NoDimCheck(_, _, _, _)
AddLoop_NoDimCheck(h, payload, i, items) ==
    IF i > Len(payload) THEN [h |-> h, items |-> items]
    ELSE LET record == payload[i]
             byId == MapGet(h.id_to_label, record.id)
             byHash == IF byId = NoLabel
                       THEN MapGet(h.hash_to_label, record.hash) ELSE byId
             a == IF byHash = NoLabel THEN AllocateLabel(h)
                  ELSE [h |-> h, label |-> byHash]
             h2 == [a.h EXCEPT
                      !.records = RecordsSet(a.h.records, a.label, record),
                      !.id_to_label = MapPut(a.h.id_to_label, record.id, a.label),
                      !.hash_to_label = MapPut(a.h.hash_to_label, record.hash, a.label)]
         IN  AddLoop_NoDimCheck(h2, payload, i + 1,
                                Append(items, [vector |-> record.vector, label |-> a.label]))

\* the loop of add_or_update (lines 100-120): the label maps after the
\* records payload[i..], and the (vector, label) pairs to hand to add_items
RECURSIVE AddLoop(_, _, _, _)
AddLoop(h, payload, i, items) ==
    IF i > Len(payload) THEN [h |-> h, items |-> items]
    ELSE LET record == payload[i]
         IN  IF record.vector.dim # EmbedDim
             THEN AddLoop(h, payload, i + 1, items)
             ELSE LET byId == MapGet(h.id_to_label, record.id)
                      byHash == IF byId = NoLabel
                                THEN MapGet(h.hash_to_label, record.hash) ELSE byId
                      a == IF byHash = NoLabel THEN AllocateLabel(h)
                           ELSE [h |-> h, label |-> byHash]
                      h2 == [a.h EXCEPT
                               !.records = RecordsSet(a.h.records, a.label, record),
                               !.id_to_label = MapPut(a.h.id_to_label, record.id, a.label),
                               !.hash_to_label = MapPut(a.h.hash_to_label, record.hash, a.label)]
                 IN  AddLoop(h2, payload, i + 1,
                             Append(items, [vector |-> record.vector, label |-> a.label]))

DeletedElements(h) == {s \in 1..Len(h.elems) : h.elems[s].deleted}

Element(label, vector) == [label |-> label, vector |-> vector, deleted |-> FALSE]

\* hnswlib addPoint(data, label, replace_deleted = true) on an index built
\* with allow_replace_deleted: when a deleted element exists the point is
\* written over one of them (the one deleted_elements.begin() yields, an
\* unordered set) and the label table drops that element's old label;
\* otherwise the element of a known label is updated, and a new label takes
\* a new element unless max_elements is reached.  The outcomes, as a set.
AddPoint(h, vector, label) ==
    IF DeletedElements(h) # {}
    THEN {[h |-> [h EXCEPT !.elems[s] = Element(label, vector),
                           !.lookup = MapPut(MapPop(h.lookup, h.elems[s].label), label, s)],
           raised |-> FALSE] : s \in DeletedElements(h)}
    ELSE IF MapGet(h.lookup, label) # NoLabel
    THEN {[h |-> [h EXCEPT !.elems[MapGet(h.lookup, label)] = Element(label, vector)],
           raised |-> FALSE]}
    ELSE IF Len(h.elems) >= h.max_elements
    THEN {[h |-> h, raised |-> TRUE]}
    ELSE {[h |-> [h EXCEPT !.elems = Append(h.elems, Element(label, vector)),
                           !.lookup = MapPut(h.lookup, label, Len(h.elems) + 1)],
           raised |-> FALSE]}

\* hnswlib add_items(batch, labels, replace_deleted=True): one addPoint per
\* row, in order; the first that raises ends the call
RECURSIVE AddItems(_, _)
AddItems(h, items) ==
    IF items = <<>> THEN {[h |-> h, raised |-> FALSE]}
    ELSE UNION {IF o.raised THEN {o} ELSE AddItems(o.h, Tail(items)) :
                    o \in AddPoint(h, Head(items).vector, Head(items).label)}

CountValid(payload) == Len(SelectSeq(payload, LAMBDA record : record.vector.dim = EmbedDim))

\* HotIndexManager.add_or_update: the possible outcomes of one call
AddOrUpdate(h, payload) ==
    IF payload = <<>> THEN {[h |-> h, raised |-> FALSE, ret |-> 0]}
    ELSE LET e == EnsureInitialized(h, Len(h.records) + Len(payload) + Headroom)
             l == AddLoop(e, payload, 1, <<>>)
         IN  IF l.items = <<>> THEN {[h |-> l.h, raised |-> FALSE, ret |-> 0]}
             ELSE {IF o.raised THEN [h |-> o.h, raised |-> TRUE, ret |-> 0]
                   ELSE [h |-> [o.h EXCEPT !.size = Len(o.h.records)],
                         raised |-> FALSE, ret |-> CountValid(payload)] :
                      o \in AddItems(l.h, l.items)}

\* hnswlib mark_deleted(label): raises for a label the label table does not
\* hold and for an element that is already deleted
MarkDeleted(h, label) ==
    LET s == MapGet(h.lookup, label)
    IN  IF s = NoLabel \/ h.elems[s].deleted THEN [h |-> h, raised |-> TRUE]
        ELSE [h |-> [h EXCEPT !.elems[s].deleted = TRUE], raised |-> FALSE]

\* the loop of evict_older_than over list(self._records.items())
RECURSIVE EvictLoop(_, _, _, _)
EvictLoop(h, snapshot, cutoff, evicted) ==
    IF snapshot = <<>> THEN [h |-> h, raised |-> FALSE, ret |-> evicted]
    ELSE LET label == Head(snapshot).label
             record == Head(snapshot).rec
         IN  IF ~(record.ts < cutoff) THEN EvictLoop(h, Tail(snapshot), cutoff, evicted)
             ELSE LET m == MarkDeleted(h, label)
                  IN  IF m.raised THEN [h |-> h, raised |-> TRUE, ret |-> evicted]
                      ELSE EvictLoop(
                             [m.h EXCEPT
                                !.records = RecordsPop(m.h.records, label),
                                !.free_labels = Append(m.h.free_labels, label),
                                !.id_to_label = MapPop(m.h.id_to_label, record.id),
                                !.hash_to_label = MapPop(m.h.hash_to_label, record.hash)],
                             Tail(snapshot), cutoff, evicted + 1)

\* HotIndexManager.evict_older_than
EvictOlderThan(h, cutoff) ==
    IF h.records = <<>> THEN [h |-> h, raised |-> FALSE, ret |-> 0]
    ELSE LET l == EvictLoop(h, h.records, cutoff, 0)
         IN  IF ~l.raised /\ l.ret > 0
             THEN [l EXCEPT !.h.size = Len(l.h.records)]
             ELSE l

\* HotIndexManager.rebuild: the possible outcomes of one call
Rebuild(h, records) ==
    LET fresh == [HotEmpty EXCEPT !.size = h.size]
    IN  {IF o.raised THEN o ELSE [o EXCEPT !.h.size = Len(o.h.records), !.ret = 0] :
            o \in AddOrUpdate(fresh, records)}

\* cosine distance of two embeddings, as far as the order of results goes
Distance(v, w) == IF v = w THEN 0 ELSE 1

\* hnswlib knn_query(vector, k): the labels of k elements that are not
\* deleted, nearest first, ties in any order; raises when fewer than k
\* elements can be returned
KnnQuery(h, vector, k) ==
    LET live == (1..Len(h.elems)) \ DeletedElements(h)
        d(s) == Distance(h.elems[s].vector, vector)
    IN  IF Cardinality(live) < k THEN {[raised |-> TRUE, labels |-> <<>>]}
        ELSE {[raised |-> FALSE, labels |-> [i \in 1..k |-> h.elems[f[i]].label]] :
                f \in {g \in [1..k -> live] :
                         /\ \A i, j \in 1..k : i < j => (g[i] # g[j] /\ d(g[i]) <= d(g[j]))
                         /\ \A s \in live :
                              (\A i \in 1..k : g[i] # s) => \A i \in 1..k : d(g[i]) <= d(s)}}

\* the loop of query (lines 164-169): the records of the returned labels
RECURSIVE QueryResults(_, _)
QueryResults(h, labels) ==
    IF labels = <<>> THEN <<>>
    ELSE LET i == RecordsGet(h, Head(labels))
         IN  IF i = 0 THEN QueryResults(h, Tail(labels))
             ELSE <<h.records[i].rec>> \o QueryResults(h, Tail(labels))

\* topk or self._settings.topk; topk = 0 stands for None
RequestedK(topk) == IF topk = 0 THEN DefaultTopk ELSE topk

\* query with k unclamped: knn_query is asked for top_k results
Query_NoClamp(h, vector, topk) ==
    IF ~h.initialized \/ h.records = <<>> THEN {[raised |-> FALSE, result |-> <<>>]}
    ELSE {[raised |-> o.raised, result |-> QueryResults(h, o.labels)] :
            o \in KnnQuery(h, vector, RequestedK(topk))}

\* HotIndexManager.query: the possible outcomes of one call
Query(h, vector, topk) ==
    IF ~h.initialized \/ h.records = <<>> THEN {[raised |-> FALSE, result |-> <<>>]}
    ELSE LET k == Min(RequestedK(topk), Len(h.records))
         IN  IF k = 0 THEN {[raised |-> FALSE, result |-> <<>>]}
             ELSE {[raised |-> o.raised, result |-> QueryResults(h, o.labels)] :
                     o \in KnnQuery(h, vector, k)}

\* the outcome recorded for the most recent HotIndexManager call
NoHotCall ==
    [op |-> "none", n |-> 0, raised |-> FALSE, ret |-> 0, len |-> 0, result |-> <<>>]

(***************************************************************************)
(* Spec: a server process handling webhook calls, restarts of it, and runs *)
(* of the replay tool (scripts/dlq_replay.py) on one DLQ file.             *)
(***************************************************************************)
ServerSecret == "k1"

Configs ==
    {[verify |-> TRUE, secret |-> ServerSecret],
     [verify |-> TRUE, secret |-> ""],
     [verify |-> FALSE, secret |-> ServerSecret]}

\* the header a sender holding `secret` computes for `body` at time t
SignedHeader(secret, t, body) ==
    PartsHeader(<<Part("t", TsValue(t)), Part("v1", StrValue(SignWithTimestamp(secret, t, body.bytes)))>>)

\* x-ingest-signature values of the inbound calls
\* the empty header, the header of a sender that signs with the secret the
\* server is configured with, a header whose signature holds a non-ASCII
\* character
PipelineHeaders(body, current, config) ==
    {EmptyHeader,
     SignedHeader(config.secret, current, body),
     PartsHeader(<<Part("t", TsValue(current)), Part("v1", StrValue(<<NonAscii>>))>>)}

\* the collaborator outcomes that matter for this call
EnvChoices(body, header, config, current) ==
    LET v == VerifyStage(body, header, config, current)
        d == DecodeStage(body)
        x == PlanOf[body.doc].x
        pairs == PlanOf[body.doc].pairs
        built == PlanOf[body.doc].built
        oneWrite == {Env("ok", {}, ok) : ok \in {{}, {1}}}
        none == {Env("ok", {}, {})}
    IN  IF ~v.ok THEN (IF v.exc = "WebhookVerificationError" THEN oneWrite ELSE none)
        ELSE IF ~d.ok THEN (IF d.exc = "JSONDecodeError" THEN oneWrite ELSE none)
        ELSE IF ~x.ok THEN oneWrite
        ELSE IF x.messages = <<>> THEN none
        ELSE IF ~SortableIds(x.messages) THEN oneWrite
        ELSE IF pairs = <<>> THEN none
        ELSE {Env(e, {}, ok) : e \in {"raise", "mismatch"}, ok \in SUBSET {1, 2}}
             \cup (IF ~built.ok THEN oneWrite
                   ELSE {Env("ok", ok, {}) : ok \in SUBSET (1..Len(built.records))})

\* ingest_callback (routes.py 27-38): the HTTP status the webhook caller
\* gets for the outcome of process
IngestCallbackStatus(out) ==
    IF out.ok THEN 202
    ELSE IF out.exc = "WebhookVerificationError" THEN 401
    ELSE 500

NoCall ==
    [Outcome(FALSE, "none", "none") EXCEPT !.ok = FALSE]
        @@ [n |-> 0, kind |-> "none", body |-> BodyBadJson, fresh |-> TRUE]

CallRecord(out, n, kind, body) ==
    out @@ [n |-> n, kind |-> kind, body |-> body, fresh |-> TRUE]

RowsBag(rows) ==
    LET R == {rows[i] : i \in 1..Len(rows)}
    IN  [r \in R |-> Cardinality({i \in 1..Len(rows) : rows[i] = r})]

InitVerifyVars ==
    /\ vin = [header |-> EmptyHeader, bytes |-> <<>>, secret |-> "", current |-> ClockBase]
    /\ vout = Pending

NoUpsert == [batch |-> <<>>, count |-> 0, existing |-> {}]

InitLanceVars ==
    /\ table = <<>>
    /\ lret = NoUpsert

InitPipeline ==
    /\ cfg \in Configs
    /\ now = ClockBase
    /\ store = EmptyBag
    /\ cache = {}
    /\ dlq = <<>>
    /\ last = NoCall
    /\ hot = HotEmpty
    /\ hret = NoHotCall

Init == InitVerifyVars /\ InitPipeline /\ InitLanceVars

\* an inbound webhook call handled by the server process
Process(body, header) ==
    /\ last.n < MaxCalls
    /\ \E env \in EnvChoices(body, header, cfg, now) :
         LET r == ProcessRun(body, header, env, cache, cfg, now)
         IN  /\ store' = store (+) RowsBag(r.rows)
             /\ cache' = r.cache
             /\ dlq' = dlq \o r.dlq
             /\ last' = CallRecord(r.out, last.n + 1, "process", body)
    /\ UNCHANGED <<vin, vout, cfg, now, hot, table, lret, hret>>

\* scripts/dlq_replay.py run on the DLQ file dlq[i]: main() builds a fresh
\* application state (an empty hash cache), replay() feeds the file's body
\* and signature to process and unlinks the file on success when asked to
Replay(i, delete_on_success) ==
    /\ last.n < MaxCalls
    /\ i \in 1..Len(dlq)
    /\ LET entry == dlq[i]
       IN  \E env \in EnvChoices(entry.body, entry.signature, cfg, now) :
             LET r == ProcessRun(entry.body, entry.signature, env, {}, cfg, now)
                 kept == IF r.out.ok /\ delete_on_success
                         THEN SubSeq(dlq, 1, i - 1) \o SubSeq(dlq, i + 1, Len(dlq))
                         ELSE dlq
             IN  /\ store' = store (+) RowsBag(r.rows)
                 /\ dlq' = kept \o r.dlq
                 /\ last' = CallRecord(r.out, last.n + 1, "replay", entry.body)
    /\ UNCHANGED <<vin, vout, cfg, now, cache, hot, table, lret, hret>>

\* the server process restarts: PineconeMemoryStore.__init__ starts with an
\* empty _existing_hashes; the Pinecone index and the DLQ directory persist
Restart ==
    /\ cache' = {}
    /\ last' = [last EXCEPT !.fresh = FALSE]
    /\ hot' = HotEmpty
    /\ UNCHANGED <<vin, vout, cfg, now, store, dlq, table, lret, hret>>

\* time passes: more than the signature tolerance
Tick ==
    /\ now < ClockBase + MaxTicks * (Tolerance + 1)
    /\ now' = now + Tolerance + 1
    /\ UNCHANGED <<vin, vout, cfg, store, cache, dlq, last, hot, table, lret, hret>>

Next ==
    \/ \E body \in PipelineBodies : \E header \in PipelineHeaders(body, now, cfg) :
          Process(body, header)
    \/ \E i \in 1..Len(dlq), delete_on_success \in BOOLEAN : Replay(i, delete_on_success)
    \/ Restart
    \/ Tick

vars == <<vin, vout, cfg, now, store, cache, dlq, last, hot, table, lret, hret>>

Spec == Init /\ [][Next]_vars

InitVerifyOnly ==
    /\ InitVerify
    /\ cfg = [verify |-> TRUE, secret |-> ServerSecret]
    /\ now = ClockBase
    /\ store = EmptyBag
    /\ cache = {}
    /\ dlq = <<>>
    /\ last = NoCall
    /\ hot = HotEmpty
    /\ hret = NoHotCall
    /\ InitLanceVars

VerifyStep == VerifyCall /\ UNCHANGED <<cfg, now, store, cache, dlq, last, hot, table, lret, hret>>

SpecVerify == InitVerifyOnly /\ [][VerifyStep]_vars

(***************************************************************************)
(* SpecLance: MemoryStore.upsert (app/memory/store.py) applied to bounded  *)
(* batches.                                                                *)
(***************************************************************************)
LanceRecords == {[id |-> i, hash |-> h] : i \in {"r1", "r2"}, h \in {"h1", "h2", "h3"}}

RECURSIVE Batches(_)
Batches(n) ==
    IF n = 0 THEN {<<>>}
    ELSE LET shorter == Batches(n - 1)
         IN  shorter \cup {Append(b, r) : b \in {x \in shorter : Len(x) = n - 1},
                                          r \in LanceRecords}

HashesOf(rows) == {rows[i].hash : i \in 1..Len(rows)}

\* MemoryStore._existing_hashes: the hashes among `hashes` the table holds
ExistingHashes(rows, hashes) == {h \in hashes : h \in HashesOf(rows)}

\* MemoryStore.upsert: the rows appended to the table and the returned count
LanceUpsert(rows, batch) ==
    LET existing == ExistingHashes(rows, HashesOf(batch))
        pending == SelectSeq(batch, LAMBDA row : row.hash \notin existing)
    IN  [pending |-> pending, count |-> Len(pending), existing |-> existing]

UpsertCall(batch) ==
    /\ Len(table) + Len(batch) <= MaxRows
    /\ LET u == LanceUpsert(table, batch)
       IN  /\ table' = table \o u.pending
           /\ lret' = [batch |-> batch, count |-> u.count, existing |-> u.existing]
    /\ UNCHANGED <<vin, vout, cfg, now, store, cache, dlq, last, hot, hret>>

NextLance == \E batch \in Batches(MaxBatch) : UpsertCall(batch)

InitLance ==
    /\ InitVerifyVars
    /\ InitLanceVars
    /\ cfg = [verify |-> TRUE, secret |-> ServerSecret]
    /\ now = ClockBase
    /\ store = EmptyBag
    /\ cache = {}
    /\ dlq = <<>>
    /\ last = NoCall
    /\ hot = HotEmpty
    /\ hret = NoHotCall

SpecLance == InitLance /\ [][NextLance]_vars

(***************************************************************************)
(* SpecIndex: one HotIndexManager under add_or_update, evict_older_than,   *)
(* rebuild and query calls with bounded arguments.                         *)
(***************************************************************************)
Vector(dim, at) == [dim |-> dim, at |-> at]

\* MemoryRecord, as far as the hot index reads it: id, hash, ts, vector.
\* The embedding of a record is named after its hash; a vector one
\* component short stands for every vector of another dimension.
HotRecord(id, hash, ts, dim) ==
    [id |-> id, hash |-> hash, ts |-> ts, vector |-> Vector(dim, hash)]

\* records of three ids, at an old (1) or a recent (2) timestamp: a is
\* re-ingested under a new hash that b already carries; one record has a
\* vector of a wrong dimension
HotRecords ==
    {HotRecord("a", "h1", 1, EmbedDim), HotRecord("a", "h2", 2, EmbedDim),
     HotRecord("b", "h2", 1, EmbedDim),
     HotRecord("c", "h3", 2, EmbedDim), HotRecord("c", "h3", 2, EmbedDim - 1)}

RECURSIVE HotBatches(_)
HotBatches(n) ==
    IF n = 0 THEN {<<>>}
    ELSE LET shorter == HotBatches(n - 1)
         IN  shorter \cup {Append(b, r) : b \in {x \in shorter : Len(x) = n - 1},
                                          r \in HotRecords}

\* cutoffs around the two timestamps of the records
Cutoffs == {2, 3}

QueryVectors == {Vector(EmbedDim, x) : x \in {"h1", "h2", "h3"}}
Topks == {0, 1, 2}

HotCall(op, raised, ret) ==
    [NoHotCall EXCEPT !.op = op, !.n = hret.n + 1, !.raised = raised, !.ret = ret]

HotAdd(batch) ==
    /\ hret.n < MaxHotOps
    /\ \E o \in AddOrUpdate(hot, batch) :
         /\ hot' = o.h
         /\ hret' = [HotCall("add_or_update", o.raised, o.ret) EXCEPT !.len = Len(batch)]
    /\ UNCHANGED <<vin, vout, cfg, now, store, cache, dlq, last, table, lret>>

HotEvict(cutoff) ==
    /\ hret.n < MaxHotOps
    /\ LET o == EvictOlderThan(hot, cutoff)
       IN  /\ hot' = o.h
           /\ hret' = HotCall("evict_older_than", o.raised, o.ret)
    /\ UNCHANGED <<vin, vout, cfg, now, store, cache, dlq, last, table, lret>>

HotRebuild(batch) ==
    /\ hret.n < MaxHotOps
    /\ \E o \in Rebuild(hot, batch) :
         /\ hot' = o.h
         /\ hret' = [HotCall("rebuild", o.raised, o.ret) EXCEPT !.len = Len(batch)]
    /\ UNCHANGED <<vin, vout, cfg, now, store, cache, dlq, last, table, lret>>

HotQuery(vector, topk) ==
    /\ \E o \in Query(hot, vector, topk) :
         hret' = [NoHotCall EXCEPT !.op = "query", !.n = hret.n, !.raised = o.raised,
                                   !.result = o.result]
    /\ UNCHANGED <<vin, vout, cfg, now, store, cache, dlq, last, hot, table, lret>>

NextIndex ==
    \/ \E batch \in HotBatches(MaxHotBatch) : HotAdd(batch)
    \/ \E cutoff \in Cutoffs : HotEvict(cutoff)
    \/ \E batch \in HotBatches(MaxHotBatch - 1) : HotRebuild(batch)
    \/ \E vector \in QueryVectors, topk \in Topks : HotQuery(vector, topk)

InitIndex ==
    /\ InitVerifyVars
    /\ InitLanceVars
    /\ cfg = [verify |-> TRUE, secret |-> ServerSecret]
    /\ now = ClockBase
    /\ store = EmptyBag
    /\ cache = {}
    /\ dlq = <<>>
    /\ last = NoCall
    /\ hot = HotEmpty
    /\ hret = NoHotCall

SpecIndex == InitIndex /\ [][NextIndex]_vars

(***************************************************************************)
(* SpecWarm: the LanceDB table and the hot index of one AppState under     *)
(* ingestions (upsert, then add_or_update), ingestions cut short after the *)
(* upsert, the passing of time, hot-window maintenance and warm_start.     *)
(***************************************************************************)
\* settings.hot_window_min, in clock ticks (scaled from 15 minutes)
HotWindowMin == 1
\* most rows of the table, and ticks of the clock, in one behaviour
MaxWarmRows == 3
MaxWarmTicks == 2

\* the MemoryRecords an ingestion at time clock builds: ts = datetime.now(),
\* turn 0, any id and hash
WarmRecords(clock) ==
    {HotRecord(id, hash, clock, EmbedDim) : id \in {"r1", "r2"}, hash \in {"h1", "h2"}}

WarmBatches(clock) ==
    {<<>>} \cup {<<r>> : r \in WarmRecords(clock)}
           \cup {<<r, s>> : r, s \in WarmRecords(clock)}

\* MemoryStore.latest_within: the rows with ts >= now - minutes, sorted by
\* (ts, turn); rows that tie come in any order
LatestWithin(rows, clock, minutes) ==
    LET cutoff == clock - minutes
        kept == SelectSeq(rows, LAMBDA row : row.ts >= cutoff)
        n == Len(kept)
        orders == {p \in [1..n -> 1..n] :
                      /\ \A i, j \in 1..n : i # j => p[i] # p[j]
                      /\ \A i, j \in 1..n : i < j => kept[p[i]].ts <= kept[p[j]].ts}
    IN  {[i \in 1..n |-> kept[p[i]]] : p \in orders}

\* HotIndexManager.warm_start: the possible outcomes of one call
WarmStart(h, rows, clock) ==
    UNION {{[o EXCEPT !.ret = Len(records)] : o \in Rebuild(h, records)} :
              records \in LatestWithin(rows, clock, HotWindowMin)}

\* HotIndexManager.maintain_hot_window
MaintainHotWindow(h, clock) == EvictOlderThan(h, clock - HotWindowMin)

\* POST /test/ingest: memory_store.upsert(records), then
\* hot_index.add_or_update(records)
WarmIngest(batch) ==
    /\ Len(table) + Len(batch) <= MaxWarmRows
    /\ table' = table \o LanceUpsert(table, batch).pending
    /\ \E o \in AddOrUpdate(hot, batch) :
          /\ hot' = o.h
          /\ hret' = [HotCall("add_or_update", o.raised, o.ret) EXCEPT !.n = 0, !.len = Len(batch)]
    /\ UNCHANGED <<vin, vout, cfg, now, store, cache, dlq, last, lret>>

\* the same route when the process dies between the two calls: the hot
\* index of the next process is empty until warm_start
WarmCrash(batch) ==
    /\ batch # <<>>
    /\ Len(table) + Len(batch) <= MaxWarmRows
    /\ table' = table \o LanceUpsert(table, batch).pending
    /\ hot' = HotEmpty
    /\ hret' = NoHotCall
    /\ UNCHANGED <<vin, vout, cfg, now, store, cache, dlq, last, lret>>

\* AppState.build: hot_index.warm_start()
WarmStartCall ==
    /\ \E o \in WarmStart(hot, table, now) :
          /\ hot' = o.h
          /\ hret' = [HotCall("warm_start", o.raised, o.ret) EXCEPT !.n = 0]
    /\ UNCHANGED <<vin, vout, cfg, now, store, cache, dlq, last, table, lret>>

\* the eviction timer
WarmMaintain ==
    /\ LET o == MaintainHotWindow(hot, now)
       IN  /\ hot' = o.h
           /\ hret' = [HotCall("evict_older_than", o.raised, o.ret) EXCEPT !.n = 0]
    /\ UNCHANGED <<vin, vout, cfg, now, store, cache, dlq, last, table, lret>>

WarmTick ==
    /\ now < ClockBase + MaxWarmTicks
    /\ now' = now + 1
    /\ UNCHANGED <<vin, vout, cfg, store, cache, dlq, last, hot, table, lret, hret>>

NextWarm ==
    \/ \E batch \in WarmBatches(now) : WarmIngest(batch)
    \/ \E batch \in WarmBatches(now) : WarmCrash(batch)
    \/ WarmStartCall
    \/ WarmMaintain
    \/ WarmTick

InitWarm ==
    /\ InitVerifyVars
    /\ InitLanceVars
    /\ cfg = [verify |-> TRUE, secret |-> ServerSecret]
    /\ now = ClockBase
    /\ store = EmptyBag
    /\ cache = {}
    /\ dlq = <<>>
    /\ last = NoCall
    /\ hot = HotEmpty
    /\ hret = NoHotCall

SpecWarm == InitWarm /\ [][NextWarm]_vars

(***************************************************************************)
(* SpecRace: one HotIndexManager called from two threads, an ingestion in  *)
(* add_or_update and the eviction timer.  index.py takes no lock, so the   *)
(* timer may run between the label loop of add_or_update (lines 100-120)   *)
(* and its add_items call (line 124).  While an insert is in flight        *)
(* hret.op is "adding" and hret.result holds the (vector, label) pairs it  *)
(* is about to hand to add_items.                                          *)
(***************************************************************************)
\* number of calls the two threads start in one behaviour
MaxRaceOps == 2

\* add_or_update up to line 123
RaceBegin(batch) ==
    /\ hret.op # "adding"
    /\ hret.n < MaxRaceOps
    /\ batch # <<>>
    /\ LET e == EnsureInitialized(hot, Len(hot.records) + Len(batch) + Headroom)
           l == AddLoop(e, batch, 1, <<>>)
       IN  /\ hot' = l.h
           /\ hret' = IF l.items = <<>>
                      THEN [HotCall("add_or_update", FALSE, 0) EXCEPT !.len = Len(batch)]
                      ELSE [HotCall("adding", FALSE, 0) EXCEPT
                               !.len = Len(batch), !.result = l.items]
    /\ UNCHANGED <<vin, vout, cfg, now, store, cache, dlq, last, table, lret>>

\* add_or_update from line 124 on
RaceFinish ==
    /\ hret.op = "adding"
    /\ \E o \in AddItems(hot, hret.result) :
          /\ hot' = IF o.raised THEN o.h ELSE [o.h EXCEPT !.size = Len(o.h.records)]
          /\ hret' = [HotCall("add_or_update", o.raised,
                              IF o.raised THEN 0 ELSE Len(hret.result)) EXCEPT
                         !.n = hret.n, !.len = hret.len]
    /\ UNCHANGED <<vin, vout, cfg, now, store, cache, dlq, last, table, lret>>

\* the timer thread: maintain_hot_window, at any time
RaceEvict(cutoff) ==
    /\ hret.op = "adding" \/ hret.n < MaxRaceOps
    /\ LET o == EvictOlderThan(hot, cutoff)
       IN  /\ hot' = o.h
           /\ hret' = IF hret.op = "adding" THEN hret
                      ELSE HotCall("evict_older_than", o.raised, o.ret)
    /\ UNCHANGED <<vin, vout, cfg, now, store, cache, dlq, last, table, lret>>

NextRace ==
    \/ \E batch \in HotBatches(MaxHotBatch) : RaceBegin(batch)
    \/ RaceFinish
    \/ \E cutoff \in Cutoffs : RaceEvict(cutoff)

InitRace ==
    /\ InitVerifyVars
    /\ InitLanceVars
    /\ cfg = [verify |-> TRUE, secret |-> ServerSecret]
    /\ now = ClockBase
    /\ store = EmptyBag
    /\ cache = {}
    /\ dlq = <<>>
    /\ last = NoCall
    /\ hot = HotEmpty
    /\ hret = NoHotCall

SpecRace == InitRace /\ [][NextRace]_vars

(***************************************************************************)
(* SpecChunk: TextChunker.chunk applied to bounded texts by chunkers with  *)
(* bounded settings.  A text is given by the tokens of its normalized      *)
(* form: _collapse_whitespace leaves no whitespace at the ends and no two  *)
(* whitespace characters in a row.                                         *)
(***************************************************************************)
\* longest text in tokens, largest chunk_tokens and largest min_tokens
MaxTextLen == 7
MaxChunkTokens == 3
MaxMinTokens == 3

RECURSIVE TokenSeqs(_)
TokenSeqs(n) ==
    IF n = 0 THEN {<<>>}
    ELSE LET shorter == TokenSeqs(n - 1)
         IN  shorter \cup {Append(t, x) : t \in {y \in shorter : Len(y) = n - 1},
                                          x \in {0, 1}}

NormalizedTexts ==
    {t \in TokenSeqs(MaxTextLen) :
        /\ t # <<>> => (t[1] # 0 /\ t[Len(t)] # 0)
        /\ \A i \in 1..(Len(t) - 1) : ~(t[i] = 0 /\ t[i + 1] = 0)}

\* the chunkers the constructor accepts
Chunkers ==
    {c \in {TextChunker(max_tokens, overlap, min_tokens) :
                max_tokens \in 1..MaxChunkTokens,
                overlap \in 0..MaxChunkTokens,
                min_tokens \in 0..MaxMinTokens} : ~c.raised}

\* before the call
NotChunked == [chunks |-> <<>>, iterations |-> -1]

ChunkCall ==
    /\ vout = NotChunked
    /\ vout' = ChunkerChunk(vin.self, vin.tokens)
    /\ UNCHANGED <<vin, cfg, now, store, cache, dlq, last, hot, table, lret, hret>>

NextChunk == ChunkCall

InitChunk ==
    /\ vin \in {[self |-> c, tokens |-> t] : c \in Chunkers, t \in NormalizedTexts}
    /\ vout = NotChunked
    /\ InitLanceVars
    /\ cfg = [verify |-> TRUE, secret |-> ServerSecret]
    /\ now = ClockBase
    /\ store = EmptyBag
    /\ cache = {}
    /\ dlq = <<>>
    /\ last = NoCall
    /\ hot = HotEmpty
    /\ hret = NoHotCall

SpecChunk == InitChunk /\ [][NextChunk]_vars

(***************************************************************************)
(* SpecPayload: one call of process, verification off, on a processor with *)
(* an empty store, for each payload of PayloadDocs.                        *)
(***************************************************************************)
InitPayload ==
    /\ vin \in {PayloadBody(doc) : doc \in PayloadDocs}
    /\ vout = Pending
    /\ cfg = [verify |-> FALSE, secret |-> ServerSecret]
    /\ now = ClockBase
    /\ store = EmptyBag
    /\ cache = {}
    /\ dlq = <<>>
    /\ last = NoCall
    /\ hot = HotEmpty
    /\ hret = NoHotCall
    /\ InitLanceVars

\* process(body, "") for the body vin
PayloadCall ==
    /\ last.n = 0
    /\ \E env \in EnvChoices(vin, EmptyHeader, cfg, now) :
         LET r == ProcessRun(vin, EmptyHeader, env, cache, cfg, now)
         IN  /\ store' = store (+) RowsBag(r.rows)
             /\ cache' = r.cache
             /\ dlq' = dlq \o r.dlq
             /\ last' = CallRecord(r.out, 1, "process", vin)
    /\ UNCHANGED <<vin, vout, cfg, now, hot, table, lret, hret>>

NextPayload == PayloadCall

SpecPayload == InitPayload /\ [][NextPayload]_vars

(***************************************************************************)
(* SpecEmbed: the embedding step and _build_record (callbacks.py 127-135,  *)
(* services/cohere_client.py) for one message, a configured embed_dim and  *)
(* a response of the embedding service.  A vector is the sequence of its   *)
(* components; the components themselves play no part.                     *)
(***************************************************************************)
\* longest vector the service returns, and largest configured embed_dim
MaxVectorLen == 3

EmbeddingVector(n) == [i \in 1..n |-> 0]

\* response.embeddings for a request of n texts: n vectors or fewer, each
\* of any length
Responses(n) ==
    UNION {[1..k -> {EmbeddingVector(l) : l \in 1..MaxVectorLen}] : k \in 0..n}

\* CohereEmbeddingClient._embed_batch on a client configured with
\* embed_dim = dimension, given the service's response
EmbedBatch(dimension, batch, embeddings) ==
    IF Len(embeddings) # Len(batch)
    THEN [raised |-> TRUE, results |-> <<>>]
    ELSE [raised |-> FALSE,
          results |-> [i \in 1..Len(batch) |->
                          [chunk |-> batch[i], embedding |-> embeddings[i],
                           dimension |-> dimension]]]

\* the vector and embed_dim fields of the MemoryRecord _build_record makes
EmbeddedRecord(message, embedding) ==
    [hash |-> RecordHash(message, embedding.chunk),
     vector |-> embedding.embedding,
     embed_dim |-> embedding.dimension]

\* lines 127-135 of process for one message: embed its chunks, build the
\* records
EmbedAndBuild(dimension, message, embeddings) ==
    LET chunks == Chunk(message.text)
        e == EmbedBatch(dimension, chunks, embeddings)
    IN  [raised |-> e.raised,
         records |-> [i \in 1..Len(e.results) |-> EmbeddedRecord(message, e.results[i])]]

\* the messages of SpecEmbed: one of one chunk, two of two chunks
EmbedMessages ==
    {[conversation_id |-> Conv1, turn |-> 0, text |-> <<1, 2>>, user_id |-> NoneVal],
     [conversation_id |-> ConvU, turn |-> 1, text |-> <<1, 2, 0, 3, 1>>, user_id |-> NoneVal],
     [conversation_id |-> Conv1, turn |-> 2, text |-> <<2, 1, 0, 1, 3>>, user_id |-> NoneVal]}

NotEmbedded == [raised |-> FALSE, records |-> <<>>, done |-> FALSE]

EmbedCall ==
    /\ ~vout.done
    /\ vout' = EmbedAndBuild(vin.dimension, vin.message, vin.embeddings) @@ [done |-> TRUE]
    /\ UNCHANGED <<vin, cfg, now, store, cache, dlq, last, hot, table, lret, hret>>

NextEmbed == EmbedCall

InitEmbed ==
    /\ vin \in {[dimension |-> d, message |-> m, embeddings |-> r] :
                    d \in 1..MaxVectorLen, m \in EmbedMessages,
                    r \in Responses(MaxVectorLen)}
    /\ Len(vin.embeddings) <= Len(Chunk(vin.message.text))
    /\ vout = NotEmbedded
    /\ InitLanceVars
    /\ cfg = [verify |-> TRUE, secret |-> ServerSecret]
    /\ now = ClockBase
    /\ store = EmptyBag
    /\ cache = {}
    /\ dlq = <<>>
    /\ last = NoCall
    /\ hot = HotEmpty
    /\ hret = NoHotCall

SpecEmbed == InitEmbed /\ [][NextEmbed]_vars

(***************************************************************************)
(* SpecPinecone: one PineconeMemoryStore on an index that starts empty,    *)
(* under upsert and delete_user_memories.                                  *)
(***************************************************************************)
\* the hashes of the records the durable store holds
StoredHashes == {r.hash : r \in BagToSet(store)}

\* number of store calls in one behaviour
MaxStoreOps == 3

StoreUsers == {<<"u1">>, <<"u2">>}

\* records as the pipeline builds them: the hash determines the record
StoreRecords ==
    {[hash |-> "h1", conv_id |-> StrVal(<<"u1", "a">>), user_id |-> <<"u1">>],
     [hash |-> "h2", conv_id |-> StrVal(<<"u1", "b">>), user_id |-> <<"u1">>],
     [hash |-> "h3", conv_id |-> StrVal(<<"u2", "a">>), user_id |-> <<"u2">>]}

StoreBatches == UNION {[1..n -> StoreRecords] : n \in 1..2}

\* PineconeClient.delete_user_memories: the vectors of the index without
\* those whose metadata names user_id
DeleteUserRows(rows, user_id) ==
    LET kept == {r \in BagToSet(rows) : r.user_id # user_id}
    IN  [r \in kept |-> rows[r]]

NoStoreCall == [op |-> "none", n |-> 0, count |-> 0, batch |-> <<>>, before |-> {}]

\* PineconeMemoryStore.upsert(batch); store_ok as in Upsert
StoreUpsert(batch, store_ok) ==
    /\ vout.n < MaxStoreOps
    /\ LET r == Upsert(batch, cache, store_ok)
       IN  /\ store' = store (+) RowsBag(r.rows)
           /\ cache' = r.cache
           /\ vout' = [op |-> "upsert", n |-> vout.n + 1, count |-> r.count,
                       batch |-> batch, before |-> StoredHashes]
    /\ UNCHANGED <<vin, cfg, now, dlq, last, hot, table, lret, hret>>

\* PineconeMemoryStore.delete_user_memories(user_id); ok is FALSE when the
\* client's search or delete raises (it returns False, nothing deleted)
StoreDelete(user_id, ok) ==
    /\ vout.n < MaxStoreOps
    /\ store' = IF ok THEN DeleteUserRows(store, user_id) ELSE store
    /\ cache' = IF ok THEN {} ELSE cache
    /\ vout' = [op |-> "delete", n |-> vout.n + 1, count |-> 0,
                batch |-> <<>>, before |-> StoredHashes]
    /\ UNCHANGED <<vin, cfg, now, dlq, last, hot, table, lret, hret>>

NextPinecone ==
    \/ \E batch \in StoreBatches : \E store_ok \in SUBSET (1..Len(batch)) :
          StoreUpsert(batch, store_ok)
    \/ \E user_id \in StoreUsers, ok \in BOOLEAN : StoreDelete(user_id, ok)

InitPinecone ==
    /\ vin = <<>>
    /\ vout = NoStoreCall
    /\ InitLanceVars
    /\ cfg = [verify |-> TRUE, secret |-> ServerSecret]
    /\ now = ClockBase
    /\ store = EmptyBag
    /\ cache = {}
    /\ dlq = <<>>
    /\ last = NoCall
    /\ hot = HotEmpty
    /\ hret = NoHotCall

SpecPinecone == InitPinecone /\ [][NextPinecone]_vars

(***************************************************************************)
(* Properties.                                                             *)
(***************************************************************************)
Called == last.kind # "none"

\* the step is a call of process (by the server or by the replay tool)
CallStep == last'.n = last.n + 1

\* the DLQ files written by the most recent call: the newest ones
NewDlqEntries ==
    {dlq[k] : k \in {j \in 1..Len(dlq) : j > Len(dlq) - last.dlq_written}}

\* every DLQ write of the most recent call persisted its file
DlqHealthy == last.dlq_written = last.dlq_attempts

\* C1: two successive successful calls of process with the same body on the
\* same server processor build the same set of record hashes, and the
\* second reports stored_records = 0.
C1_SecondCallStoresNothing ==
    [][(/\ CallStep
        /\ last.kind = "process" /\ last'.kind = "process"
        /\ last.fresh
        /\ last.ok /\ last'.ok
        /\ last'.body = last.body)
       => (last'.hashes = last.hashes /\ last'.stored = 0)]_vars

\* C2: whatever calls, retries, replays and restarts happened, the durable
\* store holds at most one record per record hash.
C2_OneRecordPerHash ==
    \A r \in BagToSet(store) :
        /\ store[r] = 1
        /\ \A q \in BagToSet(store) : q.hash = r.hash => q = r

\* C3: after any sequence of MemoryStore.upsert calls the table holds at
\* most one row per hash, and a record whose hash was already present is
\* not written and not counted.
C3_OneRowPerHash ==
    /\ \A i, j \in 1..Len(table) : table[i].hash = table[j].hash => i = j
    /\ lret.count = Cardinality({h \in HashesOf(lret.batch) : h \notin lret.existing})

\* C4: a call of process that raised has written a DLQ entry holding the
\* body and a reason, whichever stage failed (stated for the calls whose
\* DLQ writes did not themselves fail).
C4_ErrorHasDlqEntry ==
    (Called /\ ~last.ok /\ DlqHealthy)
        => /\ last.dlq_written >= 1
           /\ \A e \in NewDlqEntries : e.body = DecodeReplace(last.body)

\* C5: a call of process that returned a CallbackResult has every record it
\* built in the durable store; no success with a partially stored batch.
C5_SuccessMeansStored ==
    (Called /\ last.ok) => (last.hashes \subseteq StoredHashes /\ last.store_failed = 0)

\* C6: a call of process that fails at signature verification or at body
\* decoding / JSON parsing leaves the durable store, its hash cache and the
\* Hot Index exactly as they were, and calls neither the embedding service
\* nor upsert.
C6_EarlyFailureChangesNothing ==
    [][(CallStep /\ ~last'.ok /\ last'.stage \in {"signature", "decode", "json"})
       => (/\ store' = store
           /\ cache' = cache
           /\ hot' = hot
           /\ ~last'.embed_called
           /\ ~last'.upsert_called
           /\ last'.stored = 0)]_vars

\* a state after a call that failed at the signature or at the JSON body
\* while the durable store held records
C6_Witness ==
    /\ Called /\ ~last.ok /\ last.stage \in {"signature", "json"}
    /\ store # EmptyBag

\* the header of the call is exactly t=<t>,v1=<value>
IsPlainSigned(header) ==
    /\ header.form = "parts"
    /\ Len(header.parts) = 2
    /\ header.parts[1].key = "t" /\ header.parts[1].val.digits
    /\ header.parts[2].key = "v1"

\* C7: with a configured secret and t within tolerance, the header
\* t=<t>,v1=HMAC-SHA256(secret, "<t>." + body) verifies, and any other
\* signature value (in particular the digest of another body) makes
\* verify_webhook_signature raise WebhookVerificationError.
C7_SignatureDecides ==
    (/\ vout # Pending
     /\ vin.secret # ""
     /\ IsPlainSigned(vin.header)
     /\ Abs(vin.current - vin.header.parts[1].val.n) <= Tolerance)
    => IF StripR(vin.header.parts[2].val.s)
            = SignWithTimestamp(vin.secret, vin.header.parts[1].val.n, vin.bytes)
       THEN vout.ok
       ELSE vout.exc = "WebhookVerificationError"

\* the positions of the header parts that carry an integer timestamp
TimestampParts(header) ==
    {i \in 1..Len(header.parts) :
        Lower(header.parts[i].key) \in {"t", "timestamp"} /\ header.parts[i].val.digits}

\* C8: a header whose timestamp t has |now - t| > tolerance never verifies,
\* whatever signature value it carries.
C8_StaleTimestampFails ==
    (/\ vout # Pending
     /\ vin.header.form = "parts"
     /\ Cardinality(TimestampParts(vin.header)) = 1
     /\ \A i \in TimestampParts(vin.header) :
           Abs(vin.current - vin.header.parts[i].val.n) > Tolerance)
    => ~vout.ok

\* C9: with verification enabled and no secret configured every call of
\* process raises at the signature stage, whatever the header and the body:
\* its one DLQ write is the signature entry of that body, nothing was
\* parsed, embedded or upserted, and nothing is ever stored.
C9_NoSecretFailsClosed ==
    (cfg.verify /\ cfg.secret = "" /\ Called)
    => /\ ~last.ok
       /\ last.stage = "signature"
       /\ ~last.parsed /\ ~last.embed_called /\ ~last.upsert_called
       /\ last.dlq_attempts = 1
       /\ DlqHealthy =>
            /\ last.exc = "WebhookVerificationError"
            /\ \A e \in NewDlqEntries :
                  e.reason = "signature" /\ e.body = DecodeReplace(last.body)
            /\ NewDlqEntries # {}
       /\ store = EmptyBag
       /\ cache = {}

\* a call with a header signed under the empty key was rejected and recorded
C9_Witness ==
    /\ cfg.verify /\ cfg.secret = "" /\ Called
    /\ last.body = BodyOne
    /\ last.dlq_written = 1
    /\ \E e \in NewDlqEntries : e.signature = SignedHeader("", now, BodyOne)

\* C10: when a DLQ write fails during a failing call, the caller still
\* receives the stage error, never the error of the DLQ write.
C10_DlqFailureSwallowed ==
    (Called /\ ~last.ok /\ ~DlqHealthy) => last.exc # "OSError"

\* the records the hot index holds live, and their hashes
HotLive(h) == {h.records[i].rec : i \in 1..Len(h.records)}
HotHashes(h) == {r.hash : r \in HotLive(h)}

\* C11: after process returned successfully, every record it persisted is
\* live in the Hot Index (and so can be the top match of a query with its
\* own vector).
C11_PersistedRecordsAreHot ==
    (Called /\ last.ok)
        => \A x \in last.hashes : x \in StoredHashes => x \in HotHashes(hot)

\* the records a query of the index can return, over the query vectors and
\* top_k values
Queryable(h) ==
    UNION {{o.result[j] : j \in 1..Len(o.result)} :
             o \in UNION {Query(h, vector, topk) : vector \in QueryVectors, topk \in Topks}}

\* C12: after evict_older_than(cutoff) no record with ts < cutoff is live or
\* queryable, the records with ts >= cutoff that were live are still live,
\* size is their number, and the returned count is the number removed.
C12_EvictionCorrect ==
    \A cutoff \in Cutoffs :
        LET o == EvictOlderThan(hot, cutoff)
            kept == SelectSeq(hot.records, LAMBDA item : item.rec.ts >= cutoff)
        IN  /\ \A r \in HotLive(o.h) \cup Queryable(o.h) : r.ts >= cutoff
            /\ o.h.records = kept
            /\ o.h.size = Len(kept)
            /\ ~o.raised => o.ret = Len(hot.records) - Len(kept)

C14_OneLabelPerRecord ==
    \A i, j \in 1..Len(hot.records) :
        i # j => /\ hot.records[i].label # hot.records[j].label
                 /\ hot.records[i].rec.id # hot.records[j].rec.id
                 /\ hot.records[i].rec.hash # hot.records[j].rec.hash

\* C15: in every reachable state of the hot index no label is both on the
\* free-list and live and the free-list holds no label twice; a label handed
\* out by _allocate_label is either taken from the free-list or is the fresh
\* label next_label, which no record, free-list entry or mapping uses.
C15_FreeListDisjoint ==
    /\ \A i \in 1..Len(hot.free_labels) : hot.free_labels[i] \notin LiveLabels(hot)
    /\ \A i, j \in 1..Len(hot.free_labels) :
            i # j => hot.free_labels[i] # hot.free_labels[j]
    /\ LET a == AllocateLabel(hot)
       IN  \/ /\ hot.free_labels # <<>>
              /\ a.label = hot.free_labels[Len(hot.free_labels)]
              /\ a.label \notin LiveLabels(hot)
           \/ /\ hot.free_labels = <<>>
              /\ a.label = hot.next_label
              /\ a.label \notin LiveLabels(hot)
              /\ \A p \in hot.id_to_label \cup hot.hash_to_label : p[2] < a.label

\* the outcomes of one more completed state-changing call
CompletedCalls(h) ==
    UNION {{o.h : o \in {x \in AddOrUpdate(h, batch) : ~x.raised}} :
              batch \in HotBatches(MaxHotBatch)}
    \cup {o.h : o \in {x \in {EvictOlderThan(h, cutoff) : cutoff \in Cutoffs} : ~x.raised}}
    \cup UNION {{o.h : o \in {x \in Rebuild(h, batch) : ~x.raised}} :
              batch \in HotBatches(MaxHotBatch - 1)}

\* the states one more state-changing call can leave when it raises
RaisedCalls(h) ==
    UNION {{o.h : o \in {x \in AddOrUpdate(h, batch) : x.raised}} :
              batch \in HotBatches(MaxHotBatch)}
    \cup {o.h : o \in {x \in {EvictOlderThan(h, cutoff) : cutoff \in Cutoffs} : x.raised}}
    \cup UNION {{o.h : o \in {x \in Rebuild(h, batch) : x.raised}} :
              batch \in HotBatches(MaxHotBatch - 1)}

\* C16: after every add_or_update, evict_older_than and rebuild that
\* completed (returned without raising), the reported size equals the number
\* of entries of the live label-to-record map, also when the call before it
\* raised.
C16_SizeIsLiveCount ==
    /\ (hret.op \in {"add_or_update", "evict_older_than", "rebuild"} /\ ~hret.raised)
            => hot.size = Len(hot.records)
    /\ \A h \in {hot} \cup RaisedCalls(hot) :
            \A after \in CompletedCalls(h) : after.size = Len(after.records)

\* the records that update a record of seen, directly or through another
\* record of the batch: same id or same hash
RECURSIVE Updaters(_, _)
Updaters(seen, batch) ==
    LET more == {batch[j] : j \in 1..Len(batch)} \ seen
        next == {b \in more : /\ b.vector.dim = EmbedDim
                              /\ \E r \in seen : r.id = b.id \/ r.hash = b.hash}
    IN  IF next = {} THEN seen ELSE Updaters(seen \cup next, batch)

\* C17: an add_or_update that grows the capacity of an initialized index
\* never loses or relabels a record inserted earlier: every record live
\* before the call is live after it under the same label (itself, or a
\* record of the batch that updates it by id or by hash), and no
\* add_or_update or evict_older_than lowers the capacity.
C17_GrowthKeepsRecords ==
    /\ \A batch \in HotBatches(MaxHotBatch) :
          \A o \in AddOrUpdate(hot, batch) :
              /\ o.h.max_elements >= hot.max_elements
              /\ (hot.initialized /\ o.h.max_elements > hot.max_elements) =>
                    \A i \in 1..Len(hot.records) :
                        LET item == hot.records[i]
                            pos == RecordsGet(o.h, item.label)
                        IN  /\ pos # 0
                            /\ o.h.records[pos].rec \in Updaters({item.rec}, batch)
    /\ \A cutoff \in Cutoffs :
          EvictOlderThan(hot, cutoff).h.max_elements >= hot.max_elements

\* C18: whenever add_or_update hands vectors to the ANN structure, the
\* capacity is at least the number of records live before the call plus the
\* batch size plus the headroom, every label handed over is below the
\* capacity, and a growth of an initialized index, in _ensure_initialized or
\* in _allocate_label, raises the capacity to at least floor(1.5 x the
\* capacity before).
C18_CapacityCoversInsert ==
    /\ \A payload \in HotBatches(MaxHotBatch) \ {<<>>} :
          LET e == EnsureInitialized(hot, Len(hot.records) + Len(payload) + Headroom)
              l == AddLoop(e, payload, 1, <<>>)
          IN  /\ l.items # <<>> =>
                    /\ l.h.max_elements >= Len(hot.records) + Len(payload) + Headroom
                    /\ \A j \in 1..Len(l.items) : l.items[j].label < l.h.max_elements
              /\ (hot.initialized /\ e.max_elements > hot.max_elements) =>
                    e.max_elements >= (hot.max_elements * 3) \div 2
              /\ (hot.initialized /\ l.h.max_elements > hot.max_elements) =>
                    l.h.max_elements >= (hot.max_elements * 3) \div 2
    /\ LET a == AllocateLabel(hot)
       IN  /\ a.label < a.h.max_elements \/ ~hot.initialized
           /\ (hot.initialized /\ a.h.max_elements > hot.max_elements) =>
                    a.h.max_elements >= (hot.max_elements * 3) \div 2

\* an add_or_update that inserted into an index grown beyond every capacity
\* init_index can have given it
C18_Witness ==
    /\ hret.op = "add_or_update" /\ ~hret.raised /\ hret.ret >= 1
    /\ hot.max_elements > Max(MinCapacity, MaxHotBatch + Headroom)

\* the index state apart from the capacity reserved in the ANN structure
PerRecordState(h) == [h EXCEPT !.max_elements = 0, !.initialized = FALSE]

\* the records of a batch that have the configured dimension
ValidRecords(payload) == SelectSeq(payload, LAMBDA record : record.vector.dim = EmbedDim)

\* C19: add_or_update skips the records of the wrong dimension: a batch
\* leaves the records, labels, mappings and ANN elements that the batch
\* without its wrong-dimension records leaves (the two calls differ at most
\* in the capacity reserved), a batch of only such records returns 0
\* without raising and without changing them, and a completed call returns
\* the number of records of the right dimension.
C19_WrongDimSkipped ==
    \A payload \in HotBatches(MaxHotBatch) :
        LET good == ValidRecords(payload)
            full == AddOrUpdate(hot, payload)
            only == AddOrUpdate(hot, good)
        IN  /\ \A o \in full : ~o.raised => o.ret = Len(good)
            /\ good = <<>> =>
                  \A o \in full : /\ ~o.raised
                                  /\ PerRecordState(o.h) = PerRecordState(hot)
            /\ {PerRecordState(o.h) : o \in {x \in full : ~x.raised}}
                  = {PerRecordState(o.h) : o \in {x \in only : ~x.raised}}

\* an add_or_update that skipped a record and added another of the same batch
C19_Witness ==
    /\ hret.op = "add_or_update" /\ ~hret.raised
    /\ hret.len = 2 /\ hret.ret = 1 /\ Len(hot.records) >= 1

\* C20: add_or_update of one record of the right dimension whose id or hash
\* is already live reuses a live label, allocates no label and leaves size
\* unchanged; and applying add_or_update with the same batch a second time
\* completes and leaves the index state the first application left (the
\* capacity reserved apart).
C20_UpdateInPlace ==
    /\ \A record \in HotRecords :
          (/\ record.vector.dim = EmbedDim
           /\ \E r \in HotLive(hot) : r.id = record.id \/ r.hash = record.hash)
          => \A o \in AddOrUpdate(hot, <<record>>) :
                ~o.raised =>
                    /\ LiveLabels(o.h) = LiveLabels(hot)
                    /\ o.h.next_label = hot.next_label
                    /\ o.h.free_labels = hot.free_labels
                    /\ Len(o.h.records) = Len(hot.records)
                    /\ o.h.size = hot.size
    /\ \A payload \in HotBatches(MaxHotBatch) :
          \A once \in AddOrUpdate(hot, payload) :
              ~once.raised =>
                  \A twice \in AddOrUpdate(once.h, payload) :
                      /\ ~twice.raised
                      /\ PerRecordState(twice.h) = PerRecordState(once.h)

\* C21: rebuild(records) discards all prior state: whatever the state
\* before, every live record afterwards is a record of the argument of the
\* right dimension, every such record of the argument is live or collapsed
\* into a live record that updates it by id or by hash (directly or through
\* other records of the argument), no two live records share an
\* id or a hash, the free-list is empty, the labels are 0..n-1, size is the
\* live count, and a second rebuild with the same argument changes nothing.
C21_RebuildFromScratch ==
    \A records \in HotBatches(MaxHotBatch + 1) :
        \A o \in Rebuild(hot, records) :
            LET live == HotLive(o.h)
                valid == {r \in {records[j] : j \in 1..Len(records)} :
                             r.vector.dim = EmbedDim}
            IN  /\ ~o.raised
                /\ live \subseteq valid
                /\ \A r \in valid : live \cap Updaters({r}, records) # {}
                /\ \A i, j \in 1..Len(o.h.records) :
                      i # j => /\ o.h.records[i].rec.id # o.h.records[j].rec.id
                               /\ o.h.records[i].rec.hash # o.h.records[j].rec.hash
                /\ o.h.free_labels = <<>>
                /\ LiveLabels(o.h) = 0..(Len(o.h.records) - 1)
                /\ o.h.size = Len(o.h.records)
                /\ \A again \in Rebuild(o.h, records) : again.h = o.h

\* the rows of the durable table whose timestamp lies within the hot window
InHotWindow(rows, clock) ==
    {rows[i] : i \in {j \in 1..Len(rows) : rows[j].ts >= clock - HotWindowMin}}

\* C22: whatever the hot index held or missed before, a warm_start completes
\* and leaves as live records exactly the rows of the durable table whose
\* timestamp lies within the hot window.
C22_WarmStartRestoresWindow ==
    \A o \in WarmStart(hot, table, now) :
        /\ ~o.raised
        /\ HotLive(o.h) = InHotWindow(table, now)

\* C23: mutations of the hot index are serialized: from the label loop of
\* an add_or_update to its add_items call no other call changes the index,
\* so no eviction removes or frees a label the insert is writing.
C23_MutationsSerialized ==
    [][(hret.op = "adding" /\ hret'.op = "adding") => hot' = hot]_vars

\* ceil(a / b) for b > 0
CeilDiv(a, b) == (a + b - 1) \div b

\* C24: for every text and every chunker with overlap < max_tokens, chunk
\* returns after at most ceil(token_count / (max_tokens - overlap)) + 1
\* passes of its loop, and the token_start offsets of the chunks it returns
\* are non-decreasing.
C24_ChunkTerminatesInBound ==
    vout # NotChunked =>
        /\ vout.iterations
              <= CeilDiv(Len(vin.tokens), vin.self.max_tokens - vin.self.overlap) + 1
        /\ \A i \in 1..(Len(vout.chunks) - 1) :
              vout.chunks[i].token_start <= vout.chunks[i + 1].token_start

\* a text cut into at least three chunks by a loop that ran three or more times
C24_Witness ==
    /\ vout # NotChunked
    /\ vout.iterations >= 3 /\ Len(vout.chunks) >= 3
    /\ vin.self.overlap >= 1

\* C25: for a text longer than max_tokens, each chunk returned after another
\* starts max_tokens - overlap tokens after it, the two share exactly
\* overlap tokens, and every chunk but the last holds exactly max_tokens
\* tokens.
C25_WindowsShareOverlap ==
    (vout # NotChunked /\ Len(vin.tokens) > vin.self.max_tokens) =>
        \A i \in 1..(Len(vout.chunks) - 1) :
            LET c == vout.chunks[i]
                d == vout.chunks[i + 1]
            IN  /\ d.token_start = c.token_start + vin.self.max_tokens - vin.self.overlap
                /\ c.token_count = vin.self.max_tokens
                /\ c.token_start + c.token_count - d.token_start = vin.self.overlap

\* a long text cut into three or more overlapping chunks, the last one short
C25_Witness ==
    /\ vout # NotChunked
    /\ Len(vin.tokens) > vin.self.max_tokens
    /\ vin.self.overlap >= 1
    /\ Len(vout.chunks) >= 3
    /\ vout.chunks[Len(vout.chunks)].token_count < vin.self.max_tokens

\* C26: every chunk returned by chunk has min_tokens <= token_count <=
\* max_tokens; the empty text yields the empty list; a text of at least one,
\* at least min_tokens and at most max_tokens tokens yields exactly one
\* chunk, which starts at token 0 and holds the whole text.
C26_ChunkSizesWithinLimits ==
    vout # NotChunked =>
        LET n == Len(vin.tokens)
        IN  /\ \A i \in 1..Len(vout.chunks) :
                  /\ vin.self.min_tokens <= vout.chunks[i].token_count
                  /\ vout.chunks[i].token_count <= vin.self.max_tokens
            /\ n = 0 => vout.chunks = <<>>
            /\ (n >= 1 /\ vin.self.min_tokens <= n /\ n <= vin.self.max_tokens) =>
                  /\ Len(vout.chunks) = 1
                  /\ vout.chunks[1].token_start = 0
                  /\ vout.chunks[1].token_count = n

\* a long text whose last window fell below min_tokens and was dropped while
\* the windows before it were kept
C26_Witness ==
    /\ vout # NotChunked
    /\ Len(vout.chunks) >= 1
    /\ vout.iterations > Len(vout.chunks)
    /\ vin.self.min_tokens <= vin.self.max_tokens

\* a message of the ingestion call whose text is the chunked text
ChunkedMessage == [conversation_id |-> Conv1, turn |-> 0]

\* C27: the chunks chunk returns for the text of one message get pairwise
\* distinct record hashes, also when two of them have the same normalized
\* text.
C27_ChunkHashesDistinct ==
    vout # NotChunked =>
        \A i, j \in 1..Len(vout.chunks) :
            i # j => RecordHash(ChunkedMessage, vout.chunks[i])
                        # RecordHash(ChunkedMessage, vout.chunks[j])

\* two chunks of one text with the same normalized text
C27_Witness ==
    /\ vout # NotChunked
    /\ \E i, j \in 1..Len(vout.chunks) :
          i # j /\ vout.chunks[i].hash = vout.chunks[j].hash

\* the messages _extract_messages returns for the body of the latest call
Extracted == ExtractMessages(last.body.doc)

\* the latest call got as far as chunking and no message gave a chunk
NoChunkCall ==
    /\ Called
    /\ last.body.utf8 /\ last.body.doc.kind # "malformed"
    /\ Extracted.ok
    /\ \A i \in 1..Len(Extracted.messages) : Chunk(Extracted.messages[i].text) = <<>>

\* C28: when no extracted message yields a chunk, process returns a result
\* with ingested_chunks = 0 and stored_records = 0, calls neither the
\* embedding service nor the durable store, and writes no DLQ entry.
C28_NoChunksNoEffect ==
    NoChunkCall
        => /\ last.ok
           /\ last.chunks = 0 /\ last.stored = 0
           /\ ~last.embed_called /\ ~last.upsert_called
           /\ last.dlq_attempts = 0 /\ dlq = <<>>
           /\ store = EmptyBag

\* the message object has no conversation id of its own, none nested under
\* "conversation", and the payload has none to hand down; or it has no text
Lacking(m, doc) ==
    /\ m.isdict
    /\ \/ m.text = <<>>
       \/ /\ FirstNonEmpty(<<m.conversation_id, m.conversation>>) = NoneVal
          /\ FirstNonEmpty(<<doc.conversation_id>>) = NoneVal

\* the conversation id of a message where it does not depend on the
\* payload's id being handed down: its own, or else the nested one in a
\* payload without an id; None otherwise
OwnConversationId(m, doc) ==
    IF FirstNonEmpty(<<m.conversation_id>>) # NoneVal THEN m.conversation_id
    ELSE IF FirstNonEmpty(<<doc.conversation_id>>) = NoneVal
    THEN FirstNonEmpty(<<m.conversation>>)
    ELSE NoneVal

\* the message object carries such a conversation id and a text
Complete(m, doc) ==
    /\ m.isdict
    /\ OwnConversationId(m, doc) # NoneVal
    /\ m.text # <<>>

\* the payload without its lacking messages
Stripped(doc) ==
    [doc EXCEPT !.msgs = SelectSeq(doc.msgs, LAMBDA m : ~Lacking(m, doc))]

\* the record hashes a complete message gives rise to
HashesOfMessage(m, doc) ==
    LET msg == [conversation_id |-> OwnConversationId(m, doc), turn |-> m.turn]
        cs == Chunk(m.text)
    IN  {RecordHash(msg, cs[i]) : i \in 1..Len(cs)}

\* the latest call had a messages array with a lacking message in it
SkippingCall ==
    /\ Called
    /\ last.body.doc.kind \in {"array", "messages"}
    /\ \E i \in 1..Len(last.body.doc.msgs) : Lacking(last.body.doc.msgs[i], last.body.doc)

\* C29: a message without a conversation id or without text is skipped and
\* does not fail the call: the call ends as a call on the payload without
\* that message can end (same result or error, same records stored, same
\* number of DLQ entries), and when it succeeds the records of every
\* complete message of the payload are built, and are in the durable store
\* unless the store failed to write them.
C29_LackingMessageSkipped ==
    SkippingCall
        => /\ \E env \in EnvChoices(PayloadBody(Stripped(last.body.doc)), EmptyHeader, cfg, now) :
                LET r == ProcessRun(PayloadBody(Stripped(last.body.doc)), EmptyHeader,
                                    env, {}, cfg, now)
                IN  /\ r.out.ok = last.ok /\ r.out.exc = last.exc
                    /\ r.out.stage = last.stage
                    /\ r.out.chunks = last.chunks
                    /\ r.out.hashes = last.hashes
                    /\ r.out.stored = last.stored
                    /\ r.out.dlq_written = last.dlq_written
                    /\ RowsBag(r.rows) = store
                    /\ Len(r.dlq) = Len(dlq)
           /\ last.ok =>
                /\ dlq = <<>>
                /\ \A i \in 1..Len(last.body.doc.msgs) :
                      Complete(last.body.doc.msgs[i], last.body.doc)
                          => /\ HashesOfMessage(last.body.doc.msgs[i], last.body.doc) \subseteq last.hashes
                             /\ last.store_failed = 0
                                   => HashesOfMessage(last.body.doc.msgs[i], last.body.doc) \subseteq StoredHashes

\* a call whose payload held a lacking message and a complete one, and that
\* stored the records of the complete one
C29_Witness ==
    /\ SkippingCall
    /\ last.ok /\ last.stored >= 1
    /\ \E i \in 1..Len(last.body.doc.msgs) : Complete(last.body.doc.msgs[i], last.body.doc)

\* the latest call passed the signature check with a body that json.loads
\* of its UTF-8 text cannot parse, or that is not UTF-8 text at all
InvalidJsonCall ==
    /\ Called
    /\ last.stage # "signature"
    /\ (~last.body.utf8 \/ last.body.doc.kind = "malformed")

\* C30: a body that is not valid JSON makes process fail with the JSON
\* decoding error after writing one DLQ entry that holds the body and whose
\* reason starts with json: (stated for calls whose DLQ write did not fail).
C30_InvalidJsonToDlq ==
    (InvalidJsonCall /\ DlqHealthy)
        => /\ ~last.ok
           /\ last.exc = "JSONDecodeError"
           /\ last.dlq_written = 1
           /\ \A e \in NewDlqEntries :
                 e.reason = "json" /\ e.body = DecodeReplace(last.body)

\* the conversation id a message of a {messages, conversation_id} payload
\* is to be ingested under: its own (conversation_id, else conversation.id)
\* when it carries one, the payload's otherwise
InheritedConversationId(m, doc) ==
    FirstNonEmpty(<<m.conversation_id, m.conversation, doc.conversation_id>>)

\* the latest call succeeded on a messages payload with an id of its own
SharedIdCall ==
    /\ Called /\ last.ok
    /\ last.body.doc.kind = "messages"
    /\ FirstNonEmpty(<<last.body.doc.conversation_id>>) # NoneVal

\* C31: for a payload {messages: [...], conversation_id: C}, every message
\* without a conversation id of its own is ingested under C and every
\* message with its own id (conversation_id or conversation.id) keeps it:
\* the records of the call are those of the messages under these ids.
C31_SharedIdInherited ==
    SharedIdCall
        => \A i \in 1..Len(last.body.doc.msgs) :
              LET m == last.body.doc.msgs[i]
                  msg == [conversation_id |-> InheritedConversationId(m, last.body.doc),
                          turn |-> m.turn]
                  cs == Chunk(m.text)
              IN  m.isdict
                    => \A k \in 1..Len(cs) : RecordHash(msg, cs[k]) \in last.hashes

\* the step is a call of process whose embedding step returned a number of
\* embeddings other than the number of chunks (RuntimeError of
\* _embed_chunks), with the DLQ writable
MismatchStep ==
    /\ CallStep
    /\ last'.stage = "embedding" /\ last'.exc = "RuntimeError"

\* C32: a call whose embedding step returns a wrong number of embeddings
\* aborts with an error and a DLQ entry holding the body, and writes no
\* record of the call to the durable store, its hash cache or the Hot Index.
C32_MismatchAborts ==
    [][MismatchStep
       => (/\ ~last'.ok
           /\ last'.dlq_written >= 1
           /\ Len(dlq') >= last'.dlq_written
           /\ \A k \in (Len(dlq') - last'.dlq_written + 1)..Len(dlq') :
                 dlq'[k].body = DecodeReplace(last'.body)
           /\ store' = store
           /\ cache' = cache
           /\ hot' = hot
           /\ ~last'.upsert_called
           /\ last'.stored = 0)]_vars

\* a state after a call aborted by an embedding count mismatch
C32_Witness ==
    /\ Called /\ ~last.ok
    /\ last.stage = "embedding" /\ last.exc = "RuntimeError"
    /\ last.embed_called /\ last.chunks >= 1

\* C33: every record built by the pipeline has embed_dim equal to the
\* length of its vector, whatever vector length the service returned.
C33_EmbedDimIsVectorLength ==
    \A i \in 1..Len(vout.records) :
        vout.records[i].embed_dim = Len(vout.records[i].vector)

\* the latest call came in through the webhook route and failed on a body
\* that is not JSON or on a payload of an unsupported shape
BadPayloadCall ==
    /\ Called /\ last.kind = "process" /\ ~last.ok
    /\ \/ last.stage \in {"decode", "json"}
       \/ last.stage = "extract" /\ last.body.doc.kind = "scalar"

\* C34: a malformed or unsupported-shape payload is answered with a
\* bad-request (4xx) status other than the 401 of a signature failure, not
\* with the 5xx of a server error (stated for calls whose DLQ write did not
\* fail).
C34_BadPayloadIsClientError ==
    (BadPayloadCall /\ DlqHealthy)
        => /\ IngestCallbackStatus(last) \in 400..499
           /\ IngestCallbackStatus(last) # 401

\* the latest call failed inside the try block of lines 108-149 of process
PipelineFailure ==
    /\ Called /\ ~last.ok
    /\ last.stage \in {"extract", "embedding", "build"}

\* C35: a call of process that fails in the pipeline writes exactly one DLQ
\* entry for that call; one embedding failure is not recorded twice (stated
\* for calls whose DLQ writes did not themselves fail).
C35_OneDlqEntryPerFailure ==
    (PipelineFailure /\ DlqHealthy)
        => (last.dlq_written = 1 /\ Cardinality(NewDlqEntries) = 1)

\* C36: in every reachable state of the hot index the lookup maps agree
\* with the live records: an entry id_to_label[i] = L or hash_to_label[h] =
\* L means that label L is live and its record has id i, respectively
\* hash h; no update or eviction leaves a stale entry behind.
C36_LookupMapsAgree ==
    /\ \A p \in hot.id_to_label :
          /\ p[2] \in LiveLabels(hot)
          /\ hot.records[RecordsGet(hot, p[2])].rec.id = p[1]
    /\ \A p \in hot.hash_to_label :
          /\ p[2] \in LiveLabels(hot)
          /\ hot.records[RecordsGet(hot, p[2])].rec.hash = p[1]

\* token index idx (0-based) lies in one of the chunks
Covered(chunks, idx) ==
    \E i \in 1..Len(chunks) :
        /\ chunks[i].token_start <= idx
        /\ idx < chunks[i].token_start + chunks[i].token_count

\* C37: for every chunker with 0 <= overlap < max_tokens and min_tokens <= 1
\* the chunks chunk() returns cover the whole token stream: every token
\* index in [0, token_count) lies in at least one chunk.
C37_ChunksCoverText ==
    (vout # NotChunked /\ vin.self.min_tokens <= 1)
        => \A idx \in 0..(Len(vin.tokens) - 1) : Covered(vout.chunks, idx)

\* the user id a record of message m is to carry: the message's user_id
\* when it has one, else the part of the conversation id before the first
\* "_" (the whole id when it has none)
ExpectedUserId(m, doc) ==
    IF FirstNonEmpty(<<m.user_id>>) # NoneVal THEN m.user_id.segs
    ELSE <<OwnConversationId(m, doc).segs[1]>>

\* C38: a record built from a message with an explicit user_id carries that
\* user_id whatever the conversation id is, and a record built from a
\* message without one carries the part of the conversation id before the
\* first "_".
C38_UserIdFromMessage ==
    (Called /\ last.ok)
        => \A i \in 1..Len(last.body.doc.msgs) :
              LET m == last.body.doc.msgs[i]
              IN  (Complete(m, last.body.doc) /\ OwnConversationId(m, last.body.doc).t = "str")
                    => \A r \in BagToSet(store) :
                          r.hash \in HashesOfMessage(m, last.body.doc)
                             => r.user_id = ExpectedUserId(m, last.body.doc)

\* the step replays a DLQ file of a payload that was DLQ'd for an embedding
\* failure only and whose records can be built, and the embedding service
\* and the store work during the replay
ReplayAfterTransient ==
    /\ CallStep /\ last'.kind = "replay"
    /\ \E k \in 1..Len(dlq) : dlq[k].reason = "embedding" /\ dlq[k].body = last'.body
    /\ \A k \in 1..Len(dlq) :
          dlq[k].body = last'.body => dlq[k].reason \in {"embedding", "pipeline"}
    /\ PlanOf[last'.body.doc].built.ok
    /\ last'.stage # "embedding"
    /\ last'.store_failed = 0

\* C39: replaying the DLQ file of a payload that was DLQ'd because of a
\* transient embedding failure, once the failure has cleared and under the
\* verification setting that accepted the original call, succeeds and
\* leaves the payload's records in the durable store.
C39_ReplayIngests ==
    [][ReplayAfterTransient
       => (/\ last'.ok
           /\ last'.hashes # {}
           /\ last'.hashes \subseteq {r.hash : r \in BagToSet(store')})]_vars

\* C40: after any sequence of upsert and delete_user_memories on one
\* PineconeMemoryStore a hash is in the dedup cache exactly when a record
\* with that hash is stored; an upsert writes no record whose hash was
\* stored before the call, and counts none.
C40_CacheMatchesStore ==
    /\ cache = StoredHashes
    /\ \A r \in BagToSet(store) : store[r] = 1
    /\ vout.op = "upsert"
         => vout.count <= Cardinality({vout.batch[i].hash : i \in 1..Len(vout.batch)}
                                        \ vout.before)

====
